---- MODULE Spec2Model ----
(***************************************************************************)
(* Model of the QMT client's trading ledger.                               *)
(*                                                                         *)
(*   Spec      StockTrader (src/src/trade/trader.py): buy_stock,           *)
(*             sell_stock and update_positions acting on the positions     *)
(*             file and the assets file.  What the quote source and the    *)
(*             remote service answer during a call is an input of the      *)
(*             call (an "env" record).                                     *)
(*   SpecLock  FileLock.__enter__/__exit__ run by two processes on one     *)
(*             ledger path, the save they do inside the lock and a reader  *)
(*             of the saved file, at the granularity of system calls.      *)
(*   SpecService   the same handlers while the remote service changes      *)
(*             between their calls.                                        *)
(*   SpecSizing    the sizing functions of StockTrader under the values    *)
(*             trading.volume_step and trading.min_volume can take.        *)
(*   SpecStrategy  StrategyManager (src/src/core/strategy_manager.py)      *)
(*             executing the service's instructions on a SimulatedBroker   *)
(*             (src/src/broker/simulator.py).                              *)
(*                                                                         *)
(* Money and prices are integers; an average cost is an exact rational     *)
(* <<numerator, denominator>>.  Every handler is one atomic action: the    *)
(* quote and the remote service do not change while a handler runs.        *)
(***************************************************************************)
EXTENDS Integers, Sequences, FiniteSets, TLC

(***************************************************************************)
(* Bounds of the model                                                     *)
(***************************************************************************)
\* handler calls in one behaviour
MaxCalls == 2
\* the wall clock stops advancing here (seconds since the trader was built)
MaxTime == 61
\* seconds the wall clock advances in one step
TickStep == 61
\* configured trading.trade_frequency_limit, instantiated small
trade_frequency_limit == 1
\* with-blocks one process enters in one behaviour
MaxRounds == 1
\* steps the wall clock of the two processes takes in one behaviour
MaxTicks == 2
\* instructions the remote service issues in one behaviour
MaxInstructions == 2
\* passes of the strategy monitor loop in one behaviour
MaxPasses == 3
\* shares an Order is told to have filled, at most
MaxFilled == 400

(***************************************************************************)
(* Program constants                                                       *)
(***************************************************************************)
volume_step == 100
min_volume == 100
frequency_window == 60
stop_after_attempt == 3
position_ttl == 60
INITIAL_CASH == 1000000
TRADING_START_TIME == 34200
TRADING_END_TIME == 54000
TRADING_DAYS == 1..7
\* time.time() when the trader is built
EpochStart == 1000000
\* FileLock: attempts, seconds between them, age at which a lock file is stale
retries == 3
retry_delay == 1
lock_timeout == 300
max_position_ratio == 30

(***************************************************************************)
(* Input domains                                                           *)
(***************************************************************************)
Codes == {"s1", "s2"}
\* get_real_time_quote returns None
NoQuote == -1
\* a price bound that was not given (None)
NoBound == -1
Prices == {0, 90, 100, 110}
MinPrices == {NoBound, 100}
MaxPrices == {NoBound, 100}
BuyRatios == {10, 100}
SellRatios == {50, 100}
\* target ratios of the instructions the scheduler executes: at the ceiling and above it
TargetRatios == {30, 40}
Weekdays == {7}
\* the trader is built one minute before the close
StartTods == {TRADING_END_TIME - 60}
ApiStates == {"ok", "error", "down"}
\* no strategy_id given
NoStrategy == 0
StrategyIds == {NoStrategy, 2, 3}

(***************************************************************************)
(* Arithmetic helpers                                                      *)
(***************************************************************************)
RECURSIVE GCD(_, _)
GCD(a, b) == IF b = 0 THEN a ELSE GCD(b, a % b)

Rat(n, d) == LET g == GCD(n, d) IN IF g = 0 THEN <<0, 1>> ELSE <<n \div g, d \div g>>

RECURSIVE SumOver(_, _)
SumOver(S, f) == IF S = {} THEN 0
                 ELSE LET c == CHOOSE x \in S : TRUE IN f[c] + SumOver(S \ {c}, f)

Min(a, b) == IF a <= b THEN a ELSE b

(***************************************************************************)
(* Ledger records                                                          *)
(***************************************************************************)
\* a symbol without an entry in positions.json
NoPos == [volume |-> 0, price |-> <<0, 1>>]
\* a symbol without an entry in assets.json["positions"]
NoAssetPos == [volume |-> 0, cost_price |-> <<0, 1>>, current_price |-> 0, market_value |-> 0]
\* a symbol the remote service does not list
NoRemotePos == [listed |-> FALSE, total_volume |-> 0, average_cost |-> 0, dynamic_cost |-> 0,
                market_value |-> 0, latest_price |-> 0, original_position_ratio |-> 0]

EmptyPositions == [c \in Codes |-> NoPos]

InitialAssets(cash) == [cash |-> cash, total_assets |-> cash, total_market_value |-> 0,
                        positions |-> [c \in Codes |-> NoAssetPos]]

\* the account the remote service reports: one without a holding, one with a holding,
\* and one whose list keeps the row of a holding that was sold out
RemoteFlat == [available_cash |-> INITIAL_CASH, cash |-> INITIAL_CASH, total_assets |-> INITIAL_CASH,
               positions |-> [c \in Codes |-> NoRemotePos]]
RemoteHolding == [available_cash |-> 900000, cash |-> 900000, total_assets |-> INITIAL_CASH,
                  positions |-> [c \in Codes |->
                      IF c = "s1" THEN [listed |-> TRUE, total_volume |-> 1000,
                                        average_cost |-> 100,
                                        dynamic_cost |-> 100, market_value |-> 100000,
                                        latest_price |-> 100, original_position_ratio |-> 10]
                      ELSE NoRemotePos]]
RemoteSold == [available_cash |-> INITIAL_CASH, cash |-> INITIAL_CASH, total_assets |-> INITIAL_CASH,
               positions |-> [c \in Codes |->
                   IF c = "s1" THEN [listed |-> TRUE, total_volume |-> 0, average_cost |-> 100,
                                     dynamic_cost |-> 100, market_value |-> 0,
                                     latest_price |-> 100, original_position_ratio |-> 10]
                   ELSE NoRemotePos]]
Remotes == {RemoteFlat, RemoteHolding, RemoteSold}

\* the instructions the remote service holds, by strategy id
RemoteStrategy(strategy_id) ==
    IF strategy_id = 2 THEN [action |-> "trim", execution_status |-> "partial"]
    ELSE [action |-> "sell", execution_status |-> "completed"]

\* execution_status of the instruction handed to TradingApp.execute_strategy
ExecutionStatuses == {"pending", "completed"}

\* what the quote source returns per symbol
Quotes == {q \in [Codes -> Prices \cup {NoQuote}] : q["s2"] = 100}


VARIABLES
    positions_file,   \* content of data/positions.json
    assets_file,      \* content of data/assets.json
    total_cash,       \* StockTrader.total_cash
    cash,             \* StockTrader.cash
    trade_times,      \* StockTrader.trade_times
    last_update,      \* StockTrader._last_update
    executions,       \* records appended to executions.json
    emission,         \* the last trade call: its saves of positions.json, its calls of the recorder
    now,              \* seconds elapsed on the wall clock
    weekday,          \* isoweekday of the wall clock
    startTod,         \* time of day (seconds) at now = 0
    api,              \* how the remote service answers: 200, another status, or not at all
    remote,           \* the account the remote service reports
    calls,            \* number of handler calls made
    last,             \* the last call: inputs, outcome, files written
    spent,            \* amount of the successful buys minus that of the successful sells
    trade_log,        \* wall-clock times of the successful trades
    lock_file,        \* the inode at the path "<file_path>.lock", 0 when there is none
    inodes,           \* per inode ever created: its content and the holder of its lock
    lock,             \* FileLock.lock per process: the inode it has open, 0 for None
    pc,               \* where each process is in __enter__, the save and __exit__
    attempt,          \* the attempt of the loop in __enter__, per process
    wake,             \* when the time.sleep of a process ends
    acquired,         \* when each process last completed __enter__
    rounds,           \* with-blocks each process has started
    clock,            \* seconds elapsed on the wall clock of the two processes
    ticks,            \* steps that clock has taken
    data_file,        \* what the ledger file at file_path holds
    seen,             \* what the last reader of the ledger file got
    sizing,           \* the last call of a sizing function: configuration, inputs, volume
    strategies,       \* the instructions as the remote service holds them, by id
    account,          \* SimulatedBroker.account
    orders,           \* SimulatedBroker.orders, by the instruction they were placed for
    status_moves,     \* per instruction: the changes of execution_status the client has made
    passes,           \* passes the monitor loop has made
    fills,            \* per instruction: its last filled order and the status put for it
    service_positions, \* content of the position file of TradeService
    service_last,     \* the last call of TradeService: arguments and returned tuple
    loading,          \* the last load of a ledger file: the files found and what the load gave
    answer,           \* the last answer of the remote service and what the client took from it
    validation,       \* the last call of validate_strategy: the instruction and the result
    order_object      \* one Order (src/src/models/order.py) and its fields

ledgerVars == <<positions_file, assets_file, total_cash, cash, trade_times, last_update,
                executions, emission, now, weekday, startTod, api, remote, calls, last, spent,
                trade_log>>

lockVars == <<lock_file, inodes, lock, pc, attempt, wake, acquired, rounds, clock, ticks,
              data_file, seen>>

sizeVars == <<sizing>>

coreVars == <<strategies, account, orders, status_moves, passes, fills>>

tradeVars == <<service_positions, service_last>>

loadVars == <<loading>>

unitVars == <<answer, validation, order_object>>

vars == <<ledgerVars, lockVars, sizeVars, coreVars, tradeVars, loadVars, unitVars>>

\* the answers a call gets: the quotes it is given and the remote service as it is
Env(q) == [quote |-> q, requote |-> q, api |-> api, remote |-> remote, executions_io |-> "ok"]

\* the same answers while the quote source returns q2 when a quote is read again
EnvQ(q, q2) == [quote |-> q, requote |-> q2, api |-> api, remote |-> remote,
               executions_io |-> "ok"]

\* the same answers while executions.json is as io says: readable and writable, or not
EnvIO(q, io) == [quote |-> q, requote |-> q, api |-> api, remote |-> remote,
                 executions_io |-> io]

(***************************************************************************)
(* Remote service and ledger files as the trader reads them                *)
(***************************************************************************)
\* StockTrader._get_position: the remote list, [] when no path answers 200
GetPosition(env) == IF env.api = "ok" THEN env.remote.positions ELSE [c \in Codes |-> NoRemotePos]

Listed(plist) == {c \in Codes : plist[c].listed}

\* StockTrader._get_total_assets
GetTotalAssets(env) ==
    IF env.api = "ok"
    THEN [cash |-> env.remote.available_cash, total_assets |-> env.remote.total_assets]
    ELSE [cash |-> 0, total_assets |-> 0]

\* _validate_positions without its check of the volume
ValidatePositions_AnyVolume(p) == \A c \in Codes : p[c] # NoPos => p[c].price[1] > 0

\* StockTrader._validate_positions
ValidatePositions(p) == \A c \in Codes : p[c] # NoPos => (p[c].volume > 0 /\ p[c].price[1] > 0)

\* StockTrader._validate_assets
ValidateAssets(a) == a.cash >= 0 /\ a.total_assets >= 0 /\ a.total_market_value >= 0

\* StockTrader._load_positions: the remote list when it is not empty, else the file
LoadPositions(env, pf) ==
    LET plist == GetPosition(env) IN
    IF Listed(plist) # {}
    THEN [c \in Codes |-> IF c \in Listed(plist)
                          THEN [volume |-> plist[c].total_volume, price |-> <<plist[c].average_cost, 1>>]
                          ELSE NoPos]
    ELSE IF ValidatePositions(pf) THEN pf ELSE EmptyPositions

\* StockTrader._load_assets: the remote funds when they are not zero, else the file
LoadAssets(env, af) ==
    LET a == GetTotalAssets(env) IN
    IF a.cash > 0 \/ a.total_assets > 0
    THEN [cash |-> a.cash, total_assets |-> a.total_assets, total_market_value |-> 0,
          positions |-> af.positions]
    ELSE IF ValidateAssets(af) THEN af ELSE InitialAssets(INITIAL_CASH)

\* StockTrader.update_assets: [ret |-> the assets returned, file |-> assets.json afterwards]
UpdateAssets(env, af) ==
    LET a == GetTotalAssets(env)
        plist == GetPosition(env)
        poss == [c \in Codes |->
                   IF c \in Listed(plist)
                   THEN [volume |-> plist[c].total_volume,
                         cost_price |-> <<plist[c].average_cost, 1>>,
                         current_price |-> IF plist[c].latest_price = 0
                                           THEN (IF env.quote[c] = NoQuote THEN 0 ELSE env.quote[c])
                                           ELSE plist[c].latest_price,
                         market_value |-> plist[c].market_value]
                   ELSE NoAssetPos]
        assets == [cash |-> a.cash, total_assets |-> a.total_assets,
                   total_market_value |-> SumOver(Codes, [c \in Codes |-> poss[c].market_value]),
                   positions |-> poss]
    IN  IF a.cash = 0 /\ a.total_assets = 0
        THEN [ret |-> LoadAssets(env, af), file |-> af, wrote |-> FALSE]
        ELSE IF ValidateAssets(assets)
             THEN [ret |-> assets, file |-> assets, wrote |-> TRUE]
             ELSE [ret |-> LoadAssets(env, af), file |-> af, wrote |-> FALSE]

(***************************************************************************)
(* Sizing and guards                                                       *)
(***************************************************************************)
\* _calculate_buy_volume from target_amount on, under the configured step and minimum
SizeBuy(target_amount, price, step, minv) ==
    LET volume == (target_amount \div (price * step)) * step IN
    IF volume < minv
    THEN (IF target_amount >= minv * price THEN minv ELSE 0)
    ELSE volume

\* StockTrader._calculate_buy_volume: the volume, and assets.json as update_assets leaves it
CalculateBuyVolume(env, position_ratio, price, af) ==
    IF price <= 0 THEN [volume |-> 0, file |-> af, wrote |-> FALSE]
    ELSE LET ua == UpdateAssets(env, af)
             assets == ua.ret
             target0 == (assets.total_assets * position_ratio) \div 100
             target_amount == IF target0 > assets.cash THEN assets.cash ELSE target0
         IN  [volume |-> SizeBuy(target_amount, price, volume_step, min_volume),
              file |-> ua.file, wrote |-> ua.wrote]

\* the plain mean of the two prices instead of the mean weighted by volume
CalculateWeightedAveragePrice_Unweighted(old_volume, old_price, new_volume, new_price) ==
    Rat(old_price[1] + new_price * old_price[2], 2 * old_price[2])

\* StockTrader._calculate_weighted_average_price
CalculateWeightedAveragePrice(old_volume, old_price, new_volume, new_price) ==
    Rat(old_volume * old_price[1] + new_volume * new_price * old_price[2],
        (old_volume + new_volume) * old_price[2])

\* StockTrader._check_cash_sufficient
CheckCashSufficient(required_amount) == total_cash >= required_amount

\* StockTrader._is_trading_time
IsTradingTime ==
    /\ weekday \in TRADING_DAYS
    /\ TRADING_START_TIME <= startTod + now
    /\ startTod + now <= TRADING_END_TIME

\* StockTrader._check_trade_frequency: [ok |-> allowed, tt |-> trade_times afterwards]
RECURSIVE Purge(_)
Purge(tt) == IF tt # <<>> /\ now - Head(tt) > frequency_window THEN Purge(Tail(tt)) ELSE tt

CheckTradeFrequency(tt) ==
    LET kept == Purge(tt) IN
    IF Len(kept) >= trade_frequency_limit
    THEN [ok |-> FALSE, tt |-> kept]
    ELSE [ok |-> TRUE, tt |-> Append(kept, now)]

\* _get_current_price without its better-price exceptions: any price off the band is None
GetCurrentPrice_Strict(env, stock_code, min_price, max_price, action) ==
    LET current_price == env.quote[stock_code] IN
    IF (min_price # NoBound /\ current_price < min_price)
       \/ (max_price # NoBound /\ current_price > max_price)
    THEN NoBound ELSE current_price

\* StockTrader._get_current_price: the price, or NoBound (None) when it does not match
GetCurrentPrice(env, stock_code, min_price, max_price, action) ==
    LET current_price == env.quote[stock_code]
        price_in_range ==
            IF min_price # NoBound /\ max_price # NoBound
            THEN min_price <= current_price /\ current_price <= max_price
            ELSE IF min_price # NoBound THEN ~(current_price < min_price)
            ELSE IF max_price # NoBound THEN ~(current_price > max_price)
            ELSE TRUE
    IN  IF min_price = NoBound /\ max_price = NoBound THEN current_price
        ELSE IF ~price_in_range
             THEN IF action = "buy" /\ min_price # NoBound /\ current_price < min_price
                  THEN current_price
                  ELSE IF action = "sell" /\ max_price # NoBound /\ current_price > max_price
                       THEN current_price
                       ELSE NoBound
             ELSE current_price

\* the deviation check switched off
CheckPriceDeviation_Off(env, stock_code, target_price) == TRUE

\* StockTrader._check_price_deviation against trading.price_deviation = 0.02: the quote
\* is read again; FALSE when it deviates or when there is none (PriceDeviationError)
CheckPriceDeviation(env, stock_code, target_price) ==
    LET current_price == env.requote[stock_code]
        diff == IF current_price >= target_price THEN current_price - target_price
                ELSE target_price - current_price
    IN  current_price # NoQuote /\ ~(diff * 100 > 2 * target_price)

(***************************************************************************)
(* Ledger mutation helpers                                                 *)
(***************************************************************************)
\* a write of one ledger file, inside or outside a FileLock block
Write(file, locked) == [file |-> file, locked |-> locked]

\* StockTrader._sync_positions_to_assets: [ok |-> saved, file |-> assets.json afterwards]
SyncPositionsToAssets(env, pf, af) ==
    LET positions == LoadPositions(env, pf)
        assets == LoadAssets(env, af)
        poss == [c \in Codes |->
                   IF positions[c] # NoPos /\ env.quote[c] # NoQuote
                   THEN [volume |-> positions[c].volume, cost_price |-> positions[c].price,
                         current_price |-> env.quote[c],
                         market_value |-> env.quote[c] * positions[c].volume]
                   ELSE NoAssetPos]
        total_market_value == SumOver(Codes, [c \in Codes |-> poss[c].market_value])
        synced == [cash |-> assets.cash, total_assets |-> total_cash + total_market_value,
                   total_market_value |-> total_market_value, positions |-> poss]
    IN  IF ValidateAssets(synced) THEN [ok |-> TRUE, file |-> synced]
        ELSE [ok |-> FALSE, file |-> af]

\* StockTrader._update_cash_balance: [raised, cash |-> StockTrader.cash afterwards]
UpdateCashBalance(env, amount, is_buy) ==
    IF env.api = "down" THEN [raised |-> TRUE, cash |-> cash]
    ELSE IF env.api = "error" THEN [raised |-> FALSE, cash |-> cash]
    ELSE [raised |-> FALSE,
          cash |-> IF is_buy THEN env.remote.cash - amount ELSE env.remote.cash + amount]

\* the body of _record_execution lets every exception escape
RecordRaises_Escapes(env) == env.executions_io # "ok"

\* the exception the body of _record_execution lets escape to the retry decorator:
\* none, its except clause takes every Exception, logs it and returns
RecordRaises(env) == FALSE

\* the retry decorator of _record_execution: [attempts |-> calls of the body,
\* raised |-> the last attempt raised and the decorator raises to the caller]
RetryRecord(env) ==
    IF RecordRaises(env) THEN [attempts |-> stop_after_attempt, raised |-> TRUE]
    ELSE [attempts |-> 1, raised |-> FALSE]

\* the recorder appending its record twice
RecordExecution_Twice(env, execs, stock_code, action, price, volume) ==
    LET execution == [stock_code |-> stock_code, action |-> action, price |-> price,
                      volume |-> volume]
    IN  Append(Append(execs, execution), execution)

\* StockTrader._record_execution: executions.json afterwards
RecordExecution(env, execs, stock_code, action, price, volume) ==
    IF env.executions_io # "ok" THEN execs
    ELSE Append(execs, [stock_code |-> stock_code, action |-> action, price |-> price,
                        volume |-> volume])

\* the completed test switched off
IsCompleted_Never(execution_status) == FALSE

\* execution_status == 'completed': the instruction is skipped
IsCompleted(execution_status) == execution_status = "completed"

\* the outcome of a handler that returns or raises before it changed anything
Outcome(status, price) ==
    [status |-> status, price |-> price, volume |-> 0, pf |-> positions_file, af |-> assets_file,
     cash |-> cash, tt |-> trade_times, execs |-> executions, writes |-> {},
     saves |-> 0, attempts |-> 0, sized |-> FALSE, sized_volume |-> 0, picked |-> "none"]

(***************************************************************************)
(* StockTrader.buy_stock                                                   *)
(***************************************************************************)
\* buy_stock without its comparison against max_price
BuyPriceMatch_NoMax(current_price, min_price, max_price) ==
    ~(min_price # NoBound /\ current_price < min_price)

\* the price checks of buy_stock: TRUE when the quoted price passes both
BuyPriceMatch(current_price, min_price, max_price) ==
    /\ ~(min_price # NoBound /\ current_price < min_price)
    /\ ~(max_price # NoBound /\ current_price > max_price)

\* the test of the sized volume with 0 let through
NoVolume_Negative(volume) == volume < 0

\* `if volume <= 0` of buy_stock, `if sell_volume <= 0` of sell_stock
NoVolume(volume) == volume <= 0

\* buy_stock from the sizing on: positions as loaded, sized as _calculate_buy_volume left it
BuySized(env, stock_code, current_price, positions, sized) ==
    LET volume == sized.volume
        w0 == IF sized.wrote THEN {Write("assets", FALSE)} ELSE {}
        sizedOut == [Outcome("failed", current_price) EXCEPT !.af = sized.file, !.writes = w0,
                        !.sized = TRUE, !.sized_volume = volume]
        required_amount == current_price * volume
    IN
    IF NoVolume(volume) THEN sizedOut
    ELSE IF ~CheckCashSufficient(required_amount)
         THEN [sizedOut EXCEPT !.status = "InsufficientFundsError"]
    ELSE
    LET bought == [positions EXCEPT ![stock_code] =
                     IF positions[stock_code] # NoPos
                     THEN [volume |-> positions[stock_code].volume + volume,
                           price |-> CalculateWeightedAveragePrice(positions[stock_code].volume,
                                         positions[stock_code].price, volume, current_price)]
                     ELSE [volume |-> volume, price |-> <<current_price, 1>>]]
        w1 == w0 \cup {Write("positions", FALSE)}
        savedOut == [sizedOut EXCEPT !.status = "TradeError", !.pf = bought, !.writes = w1,
                                     !.saves = 1]
        balance == UpdateCashBalance(env, required_amount, TRUE)
        sync == SyncPositionsToAssets(env, bought, sized.file)
        syncedOut == [savedOut EXCEPT !.cash = balance.cash, !.af = sync.file,
                                      !.writes = w1 \cup {Write("assets", FALSE)},
                                      !.attempts = RetryRecord(env).attempts,
                                      !.execs = RecordExecution(env, executions, stock_code, "buy",
                                                                current_price, volume)]
    IN
    IF ~ValidatePositions(bought) THEN [sizedOut EXCEPT !.status = "TradeError"]
    ELSE IF balance.raised THEN savedOut
    ELSE IF ~sync.ok THEN [savedOut EXCEPT !.cash = balance.cash]
    ELSE IF RetryRecord(env).raised THEN syncedOut
    ELSE [syncedOut EXCEPT !.status = "success", !.volume = volume]

BuyOutcome(env, stock_code, min_price, max_price, position_ratio) ==
    LET current_price == env.quote[stock_code] IN
    IF current_price = NoQuote THEN Outcome("TradeError", 0)
    ELSE IF ~BuyPriceMatch(current_price, min_price, max_price)
         THEN Outcome("PriceNotMatchError", current_price)
    ELSE BuySized(env, stock_code, current_price, LoadPositions(env, positions_file),
                  CalculateBuyVolume(env, position_ratio, current_price, assets_file))

\* what a call leaves in the history variable last
Record(op, env, stock_code, min_price, max_price, position_ratio, out) ==
    [seq |-> calls + 1, op |-> op, stock_code |-> stock_code, min_price |-> min_price,
     max_price |-> max_price, position_ratio |-> position_ratio, quote |-> env.quote[stock_code],
     requote |-> env.requote[stock_code],
     trading_time |-> IsTradingTime,
     status |-> out.status, price |-> out.price, volume |-> out.volume, writes |-> out.writes,
     reconcile_fetch |-> (op = "update_positions" /\ out.fetched),
     picked_status |-> out.picked]

Apply(op, env, stock_code, min_price, max_price, position_ratio, out, sign) ==
    /\ positions_file' = out.pf
    /\ assets_file' = out.af
    /\ cash' = out.cash
    /\ trade_times' = out.tt
    /\ executions' = out.execs
    /\ emission' = [saves |-> out.saves, attempts |-> out.attempts,
                    recorded |-> out.execs # executions,
                    sized |-> out.sized, sized_volume |-> out.sized_volume]
    /\ calls' = calls + 1
    /\ last' = Record(op, env, stock_code, min_price, max_price, position_ratio, out)
    /\ spent' = IF out.status = "success" THEN spent + sign * out.price * out.volume ELSE spent
    /\ trade_log' = IF out.status = "success" /\ sign # 0 THEN Append(trade_log, now)
                    ELSE trade_log
    /\ UNCHANGED <<total_cash, last_update, now, weekday, startTod, api, remote, lockVars, sizeVars, coreVars, tradeVars, loadVars, unitVars>>

BuyStock(env, stock_code, min_price, max_price, position_ratio) ==
    /\ calls < MaxCalls
    /\ \E out \in {BuyOutcome(env, stock_code, min_price, max_price, position_ratio)} :
          Apply("buy", env, stock_code, min_price, max_price, position_ratio, out, 1)

(***************************************************************************)
(* TradingApp.execute_strategy for a buy or add instruction                *)
(***************************************************************************)
\* TradingApp._check_position_ratio for buy/add: [ok, file |-> assets.json afterwards, wrote]
CheckPositionRatio(env, target_ratio, af) ==
    LET ua == UpdateAssets(env, af) IN
    [ok |-> ~(target_ratio > max_position_ratio), file |-> ua.file, wrote |-> ua.wrote]

\* what execute_strategy leaves: the guard's write of assets.json, then buy_stock's outcome
GuardedOutcome(check, out) ==
    LET w0 == IF check.wrote THEN {Write("assets", FALSE)} ELSE {} IN
    IF ~check.ok
    THEN [Outcome("rejected", 0) EXCEPT !.af = check.file, !.writes = w0]
    ELSE IF Write("assets", FALSE) \in out.writes THEN out
    ELSE [out EXCEPT !.af = check.file, !.writes = @ \cup w0]

ExecuteOutcome(env, stock_code, min_price, max_price, position_ratio) ==
    GuardedOutcome(CheckPositionRatio(env, position_ratio, assets_file),
                   BuyOutcome(env, stock_code, min_price, max_price, position_ratio))

ExecuteStrategy(env, stock_code, min_price, max_price, position_ratio, execution_status) ==
    /\ calls < MaxCalls
    /\ \E out \in {[(IF IsCompleted(execution_status) THEN Outcome("skipped", 0)
                     ELSE ExecuteOutcome(env, stock_code, min_price, max_price,
                                         position_ratio))
                    EXCEPT !.picked = execution_status]} :
          Apply("execute_buy", env, stock_code, min_price, max_price, position_ratio, out, 1)

\* the hold branch of TradingApp.execute_strategy: 'failed' without a holding or when
\* reading the quote raises, else an execution record of volume 0 and 'success'
HoldOutcome(env, stock_code, holdings) ==
    IF holdings = NoPos \/ env.quote[stock_code] = NoQuote THEN Outcome("failed", 0)
    ELSE [(IF RetryRecord(env).raised THEN Outcome("failed", 0)
           ELSE Outcome("success", env.quote[stock_code])) EXCEPT
             !.attempts = RetryRecord(env).attempts,
             !.execs = RecordExecution(env, executions, stock_code, "hold",
                                       env.quote[stock_code], 0)]

ExecuteHold(env, stock_code, execution_status) ==
    /\ calls < MaxCalls
    /\ \E out \in {[(IF IsCompleted(execution_status) THEN Outcome("skipped", 0)
                     ELSE HoldOutcome(env, stock_code,
                                      LoadPositions(env, positions_file)[stock_code]))
                    EXCEPT !.picked = execution_status]} :
          Apply("execute_hold", env, stock_code, NoBound, NoBound, 0, out, 0)

(***************************************************************************)
(* StockTrader.sell_stock                                                  *)
(***************************************************************************)
\* the minimum sold even when fewer shares than the minimum are held
SizeSell_FloorUnheld(position_ratio, current_holdings, step, minv) ==
    IF current_holdings <= 0 THEN 0
    ELSE IF position_ratio <= 0 \/ position_ratio > 100 THEN 0
    ELSE LET sv0 == (current_holdings * position_ratio) \div 100
         IN  IF 0 < sv0 /\ sv0 < minv THEN minv ELSE (sv0 \div step) * step

\* _calculate_sell_volume under the configured step and minimum
SizeSell(position_ratio, current_holdings, step, minv) ==
    IF current_holdings <= 0 THEN 0
    ELSE IF position_ratio <= 0 \/ position_ratio > 100 THEN 0
    ELSE LET sv0 == (current_holdings * position_ratio) \div 100
             small == 0 < sv0 /\ sv0 < minv
             sv1 == IF small THEN minv ELSE sv0
             sv2 == Min(sv1, current_holdings)
             sv3 == (sv2 \div step) * step
         IN  IF small /\ current_holdings < minv THEN 0
             ELSE IF sv3 = 0 /\ current_holdings >= minv THEN minv
             ELSE sv3

\* StockTrader._calculate_sell_volume
CalculateSellVolume(position_ratio, current_holdings) ==
    SizeSell(position_ratio, current_holdings, volume_step, min_volume)

\* _calculate_trim_volume once the remote answered with original_position_ratio
SizeTrim(trim_ratio, original_position_ratio, current_holdings, step, minv) ==
    IF original_position_ratio = 0
    THEN SizeSell(trim_ratio, current_holdings, step, minv)
    ELSE IF original_position_ratio <= 0 THEN 0
    ELSE LET sv0 == IF trim_ratio >= original_position_ratio THEN current_holdings
                    ELSE (current_holdings * trim_ratio) \div original_position_ratio
             sv1 == (sv0 \div step) * step
             sv2 == IF sv1 = 0 /\ current_holdings >= minv THEN minv ELSE sv1
         IN  Min(sv2, current_holdings)

\* StockTrader._calculate_trim_volume
CalculateTrimVolume(env, stock_code, trim_ratio, current_holdings) ==
    LET original_position_ratio == env.remote.positions[stock_code].original_position_ratio IN
    IF env.api # "ok" \/ stock_code \notin Listed(env.remote.positions) THEN 0
    ELSE SizeTrim(trim_ratio, original_position_ratio, current_holdings, volume_step, min_volume)

\* the holding gate of sell_stock: no row for the symbol, or a row without shares
HasNoPosition(positions, stock_code) ==
    positions[stock_code] = NoPos \/ positions[stock_code].volume <= 0

SellOutcome(env, stock_code, min_price, max_price, position_ratio, strategy_id) ==
    LET known == strategy_id # NoStrategy /\ env.api = "ok"
        is_trim_operation == known /\ RemoteStrategy(strategy_id).action = "trim"
        freq == CheckTradeFrequency(trade_times)
        current_price == GetCurrentPrice(env, stock_code, min_price, max_price, "sell")
        counted(status, price) == [Outcome(status, price) EXCEPT !.tt = freq.tt]
    IN
    IF known /\ IsCompleted(RemoteStrategy(strategy_id).execution_status)
    THEN Outcome("skipped", 0)
    ELSE IF ~IsTradingTime THEN Outcome("InvalidTimeError", 0)
    ELSE IF ~freq.ok THEN counted("FrequencyLimitError", 0)
    ELSE IF env.quote[stock_code] = NoQuote THEN counted("TradeError", 0)
    ELSE IF current_price = NoBound \/ current_price = 0
         THEN counted("PriceNotMatchError", env.quote[stock_code])
    ELSE IF ~CheckPriceDeviation(env, stock_code, current_price)
         THEN counted("PriceDeviationError", current_price)
    ELSE
    LET positions == LoadPositions(env, positions_file)
        current_volume == positions[stock_code].volume
        sell_volume == IF is_trim_operation
                       THEN CalculateTrimVolume(env, stock_code, position_ratio, current_volume)
                       ELSE CalculateSellVolume(position_ratio, current_volume)
        sell_amount == current_price * sell_volume
        sold == [positions EXCEPT ![stock_code] =
                   IF sell_volume >= current_volume THEN NoPos
                   ELSE [positions[stock_code] EXCEPT !.volume = @ - sell_volume]]
        sizedOut == [counted("failed", current_price) EXCEPT
                        !.sized = TRUE, !.sized_volume = sell_volume]
        savedOut == [sizedOut EXCEPT !.status = "TradeError",
                        !.pf = sold, !.writes = {Write("positions", FALSE)}, !.saves = 1]
        balance == UpdateCashBalance(env, sell_amount, FALSE)
        sync == SyncPositionsToAssets(env, sold, assets_file)
        syncedOut == [savedOut EXCEPT !.cash = balance.cash, !.af = sync.file,
                         !.writes = {Write("positions", FALSE), Write("assets", FALSE)},
                         !.attempts = RetryRecord(env).attempts,
                         !.execs = RecordExecution(env, executions, stock_code,
                                       IF is_trim_operation THEN "trim" ELSE "sell",
                                       current_price, sell_volume)]
    IN
    IF HasNoPosition(positions, stock_code) THEN counted("NoPositionError", current_price)
    ELSE IF NoVolume(sell_volume) THEN sizedOut
    ELSE IF ~ValidatePositions(sold) THEN [sizedOut EXCEPT !.status = "TradeError"]
    ELSE IF balance.raised THEN savedOut
    ELSE IF ~sync.ok THEN [savedOut EXCEPT !.cash = balance.cash]
    ELSE IF RetryRecord(env).raised THEN syncedOut
    ELSE [syncedOut EXCEPT !.status = "success", !.volume = sell_volume]

SellStock(env, stock_code, min_price, max_price, position_ratio, strategy_id) ==
    /\ calls < MaxCalls
    /\ \E out \in {[SellOutcome(env, stock_code, min_price, max_price, position_ratio,
                                 strategy_id)
                    EXCEPT !.picked = IF strategy_id # NoStrategy /\ env.api = "ok"
                                      THEN RemoteStrategy(strategy_id).execution_status
                                      ELSE "none"]} :
          Apply("sell", env, stock_code, min_price, max_price, position_ratio, out, -1)

(***************************************************************************)
(* StockTrader.update_positions                                            *)
(***************************************************************************)
\* positions.json as update_positions builds it from the remote list
RemoteToPositions(plist) ==
    [c \in Codes |-> IF c \in Listed(plist)
                     THEN [volume |-> plist[c].total_volume, price |-> <<plist[c].dynamic_cost, 1>>]
                     ELSE NoPos]

\* the interval check of update_positions dropped: every call goes to the service
PositionsFresh_Never == FALSE

\* the interval check of update_positions: the last reconcile is younger than the TTL
PositionsFresh == (EpochStart + now) - last_update < position_ttl

UpdatePositionsOutcome(env) ==
    LET positions_dict == RemoteToPositions(env.remote.positions)
        total_market_value == SumOver(Codes, [c \in Codes |-> env.remote.positions[c].market_value])
        assets == LoadAssets(env, assets_file)
        updated == [assets EXCEPT !.total_assets = total_market_value + assets.cash,
                                  !.total_market_value = total_market_value]
        none == [status |-> "False", price |-> 0, volume |-> 0, pf |-> positions_file,
                 af |-> assets_file, last_update |-> last_update, writes |-> {},
                 fetched |-> TRUE, picked |-> "none"]
    IN
    IF PositionsFresh THEN [none EXCEPT !.status = "True", !.fetched = FALSE]
    ELSE IF env.api # "ok" THEN none
    ELSE IF ~ValidatePositions(positions_dict) THEN none
    ELSE IF ~ValidateAssets(updated)
         THEN [none EXCEPT !.pf = positions_dict, !.writes = {Write("positions", TRUE)}]
    ELSE [none EXCEPT !.status = "True", !.pf = positions_dict, !.af = updated,
                      !.last_update = EpochStart + now,
                      !.writes = {Write("positions", TRUE), Write("assets", TRUE)}]

UpdatePositions(env) ==
    /\ calls < MaxCalls
    /\ \E out \in {UpdatePositionsOutcome(env)} :
       /\ positions_file' = out.pf
       /\ assets_file' = out.af
       /\ last_update' = out.last_update
       /\ last' = Record("update_positions", env, "s1", NoBound, NoBound, 0, out)
    /\ calls' = calls + 1
    /\ UNCHANGED <<total_cash, cash, trade_times, executions, emission, now, weekday, startTod,
                   api, remote, spent, trade_log, lockVars, sizeVars, coreVars, tradeVars, loadVars, unitVars>>

(***************************************************************************)
(* Wall clock                                                              *)
(***************************************************************************)
Tick ==
    /\ now < MaxTime
    /\ now' = now + TickStep
    /\ UNCHANGED <<positions_file, assets_file, total_cash, cash, trade_times, last_update,
                   executions, emission, weekday, startTod, api, remote, calls, last, spent,
                   trade_log,
                   lockVars, sizeVars, coreVars, tradeVars, loadVars, unitVars>>

(***************************************************************************)
(* FileLock on one ledger path, used by two processes                      *)
(*                                                                         *)
(* Files behave as on POSIX: os.remove unlinks a path whose file another   *)
(* process has open, and the lock of portalocker (flock) belongs to the    *)
(* open file, not to the path.                                             *)
(***************************************************************************)
Procs == {"A", "B"}
\* a lock file that holds no timestamp yet: created or truncated by open(.., 'w')
NoStamp == -1
\* the steps the wall clock can take
ClockSteps == {retry_delay, lock_timeout}

NewInode == [content |-> NoStamp, holder |-> "none"]

\* float(f.read().strip() or '0')
LockTime(content) == IF content = NoStamp THEN 0 ELSE content

\* a process is inside its with-block: __enter__ returned, __exit__ not yet begun
InSection(p) == pc[p] \in {"held", "saving", "saved"}

LockUnchanged == UNCHANGED <<ledgerVars, sizeVars, coreVars, tradeVars, loadVars, unitVars>>

\* the with statement begins: first attempt of __enter__
Enter(p) ==
    /\ pc[p] = "idle"
    /\ rounds[p] < MaxRounds
    /\ rounds' = [rounds EXCEPT ![p] = @ + 1]
    /\ attempt' = [attempt EXCEPT ![p] = 0]
    /\ pc' = [pc EXCEPT ![p] = "check"]
    /\ UNCHANGED <<lock_file, inodes, lock, wake, acquired, clock, ticks, data_file, seen>>
    /\ LockUnchanged

\* os.path.exists, and the age read from an existing lock file
CheckStale(p) ==
    /\ pc[p] = "check"
    /\ pc' = [pc EXCEPT ![p] =
                IF lock_file # 0
                   /\ (EpochStart + clock) - LockTime(inodes[lock_file].content) > lock_timeout
                THEN "remove" ELSE "open"]
    /\ UNCHANGED <<lock_file, inodes, lock, attempt, wake, acquired, rounds, clock, ticks,
                   data_file, seen>>
    /\ LockUnchanged

\* os.remove of the lock file found stale
RemoveStale(p) ==
    /\ pc[p] = "remove"
    /\ lock_file' = 0
    /\ pc' = [pc EXCEPT ![p] = "open"]
    /\ UNCHANGED <<inodes, lock, attempt, wake, acquired, rounds, clock, ticks, data_file, seen>>
    /\ LockUnchanged

\* open(self.lock_file, 'w'): creates the file, or truncates the one that is there
OpenLock(p) ==
    /\ pc[p] = "open"
    /\ IF lock_file = 0
       THEN /\ inodes' = Append(inodes, NewInode)
            /\ lock_file' = Len(inodes) + 1
       ELSE /\ inodes' = [inodes EXCEPT ![lock_file].content = NoStamp]
            /\ lock_file' = lock_file
    /\ lock' = [lock EXCEPT ![p] = lock_file']
    /\ pc' = [pc EXCEPT ![p] = "lock"]
    /\ UNCHANGED <<attempt, wake, acquired, rounds, clock, ticks, data_file, seen>>
    /\ LockUnchanged

\* portalocker.lock(LOCK_EX | LOCK_NB); on LockException close, then sleep or raise
TryLock(p) ==
    /\ pc[p] = "lock"
    /\ IF inodes[lock[p]].holder = "none"
       THEN /\ inodes' = [inodes EXCEPT ![lock[p]].holder = p]
            /\ pc' = [pc EXCEPT ![p] = "write"]
            /\ UNCHANGED <<lock, attempt, wake>>
       ELSE /\ lock' = [lock EXCEPT ![p] = 0]
            /\ IF attempt[p] < retries - 1
               THEN /\ attempt' = [attempt EXCEPT ![p] = @ + 1]
                    /\ wake' = [wake EXCEPT ![p] = clock + retry_delay]
                    /\ pc' = [pc EXCEPT ![p] = "sleep"]
               ELSE /\ pc' = [pc EXCEPT ![p] = "idle"]
                    /\ UNCHANGED <<attempt, wake>>
            /\ UNCHANGED inodes
    /\ UNCHANGED <<lock_file, acquired, rounds, clock, ticks, data_file, seen>>
    /\ LockUnchanged

\* time.sleep(self.retry_delay) is over: next attempt
Retry(p) ==
    /\ pc[p] = "sleep"
    /\ clock >= wake[p]
    /\ pc' = [pc EXCEPT ![p] = "check"]
    /\ UNCHANGED <<lock_file, inodes, lock, attempt, wake, acquired, rounds, clock, ticks,
                   data_file, seen>>
    /\ LockUnchanged

\* self.lock.write(str(time.time())), flush, return self
WriteStamp(p) ==
    /\ pc[p] = "write"
    /\ inodes' = [inodes EXCEPT ![lock[p]].content = EpochStart + clock]
    /\ acquired' = [acquired EXCEPT ![p] = clock]
    /\ pc' = [pc EXCEPT ![p] = "held"]
    /\ UNCHANGED <<lock_file, lock, attempt, wake, rounds, clock, ticks, data_file, seen>>
    /\ LockUnchanged

\* _save_positions / _save_assets inside the with-block: open(file, 'w') truncates
SaveOpen(p) ==
    /\ pc[p] = "held"
    /\ data_file' = "empty"
    /\ pc' = [pc EXCEPT ![p] = "saving"]
    /\ UNCHANGED <<lock_file, inodes, lock, attempt, wake, acquired, rounds, clock, ticks, seen>>
    /\ LockUnchanged

\* json.dump: the buffer of a large document is flushed before the document is complete
SaveFlush(p) ==
    /\ pc[p] = "saving"
    /\ data_file = "empty"
    /\ data_file' = "partial"
    /\ UNCHANGED <<lock_file, inodes, lock, pc, attempt, wake, acquired, rounds, clock, ticks, seen>>
    /\ LockUnchanged

\* the with open(...) block of the save ends: the rest is written and the file closed
SaveClose(p) ==
    /\ pc[p] = "saving"
    /\ data_file' = "complete"
    /\ pc' = [pc EXCEPT ![p] = "saved"]
    /\ UNCHANGED <<lock_file, inodes, lock, attempt, wake, acquired, rounds, clock, ticks, seen>>
    /\ LockUnchanged

\* __exit__: portalocker.unlock, close
ExitUnlock(p) ==
    /\ pc[p] = "saved"
    /\ inodes' = [inodes EXCEPT ![lock[p]].holder = "none"]
    /\ lock' = [lock EXCEPT ![p] = 0]
    /\ pc' = [pc EXCEPT ![p] = "unlink"]
    /\ UNCHANGED <<lock_file, attempt, wake, acquired, rounds, clock, ticks, data_file, seen>>
    /\ LockUnchanged

\* __exit__: os.remove(self.lock_file) if it exists
ExitRemove(p) ==
    /\ pc[p] = "unlink"
    /\ lock_file' = 0
    /\ pc' = [pc EXCEPT ![p] = "idle"]
    /\ UNCHANGED <<inodes, lock, attempt, wake, acquired, rounds, clock, ticks, data_file, seen>>
    /\ LockUnchanged

\* _load_positions / _load_assets reading the ledger file: open(file, 'r'), json.load
ReadLedger ==
    /\ seen' = data_file
    /\ seen # data_file
    /\ UNCHANGED <<lock_file, inodes, lock, pc, attempt, wake, acquired, rounds, clock, ticks,
                   data_file>>
    /\ LockUnchanged

ClockTick(d) ==
    /\ ticks < MaxTicks
    /\ ticks' = ticks + 1
    /\ clock' = clock + d
    /\ UNCHANGED <<lock_file, inodes, lock, pc, attempt, wake, acquired, rounds,
                   data_file, seen>>
    /\ LockUnchanged

\* no process has touched the lock: the state FileLock is constructed in
LockInit ==
    /\ lock_file = 0
    /\ inodes = <<>>
    /\ lock = [p \in Procs |-> 0]
    /\ pc = [p \in Procs |-> "idle"]
    /\ attempt = [p \in Procs |-> 0]
    /\ wake = [p \in Procs |-> 0]
    /\ acquired = [p \in Procs |-> 0]
    /\ rounds = [p \in Procs |-> 0]
    /\ clock = 0
    /\ ticks = 0
    /\ data_file = "complete"
    /\ seen = "complete"

(***************************************************************************)
(* Construction: StockTrader.__init__                                      *)
(***************************************************************************)
\* the ledger files found at start: none, or those of an account holding s1
FreshLedger == [pf |-> EmptyPositions, af |-> InitialAssets(INITIAL_CASH)]
HeldLedger ==
    [pf |-> [c \in Codes |-> IF c = "s1" THEN [volume |-> 1000, price |-> <<100, 1>>] ELSE NoPos],
     af |-> [cash |-> 900000, total_assets |-> INITIAL_CASH, total_market_value |-> 100000,
             positions |-> [c \in Codes |->
                 IF c = "s1" THEN [volume |-> 1000, cost_price |-> <<100, 1>>,
                                   current_price |-> 100, market_value |-> 100000]
                 ELSE NoAssetPos]]]
PreLedgers == {FreshLedger, HeldLedger}

\* StockTrader._load_initial_assets: the files it leaves
LoadInitialAssets(env, pre) ==
    LET positions == LoadPositions(env, pre.pf)
        assets == LoadAssets(env, pre.af)
        positions_empty == positions = EmptyPositions
        assets_positions_empty == \A c \in Codes : assets.positions[c] = NoAssetPos
        assets_data == GetTotalAssets(env)
        built == [cash |-> assets_data.cash, total_assets |-> assets_data.total_assets,
                  total_market_value |-> 0, positions |-> [c \in Codes |-> NoAssetPos]]
    IN  IF positions_empty /\ assets_positions_empty
        THEN IF ValidateAssets(built) THEN [pf |-> EmptyPositions, af |-> built]
             ELSE [pf |-> pre.pf, af |-> InitialAssets(INITIAL_CASH)]
        ELSE pre

NoCall == [seq |-> 0, op |-> "none", stock_code |-> "s1", min_price |-> NoBound,
           max_price |-> NoBound, position_ratio |-> 0, quote |-> NoQuote, requote |-> NoQuote,
           trading_time |-> FALSE, status |-> "none", price |-> 0, volume |-> 0, writes |-> {},
           reconcile_fetch |-> FALSE, picked_status |-> "none"]

\* no trade call was made yet
NoEmission == [saves |-> 0, attempts |-> 0, recorded |-> FALSE, sized |-> FALSE,
               sized_volume |-> 0]

LedgerInit ==
    /\ now = 0
    /\ weekday \in Weekdays
    /\ startTod \in StartTods
    /\ api \in ApiStates
    \* the account is only seen through the answers of a service that answers
    /\ remote \in IF api = "ok" THEN Remotes ELSE {RemoteFlat}
    /\ \E q \in Quotes, pre \in PreLedgers :
          /\ positions_file = LoadInitialAssets(Env(q), pre).pf
          /\ assets_file = LoadInitialAssets(Env(q), pre).af
          /\ total_cash = LoadAssets(Env(q), assets_file).cash
    /\ cash = 0
    /\ trade_times = <<>>
    /\ last_update = 0
    /\ executions = <<>>
    /\ emission = NoEmission
    /\ calls = 0
    /\ last = NoCall
    /\ spent = 0
    /\ trade_log = <<>>

(***************************************************************************)
(* The strategy monitor of the desktop client: StrategyManager             *)
(* (src/src/core/strategy_manager.py) placing orders on a SimulatedBroker  *)
(* (src/src/broker/simulator.py).  It trades one symbol.  Money is in fen  *)
(* (1/100 yuan), so that the commission of 0.00025 and the stamp tax of    *)
(* 0.001 are whole numbers; original_position_ratio is an exact rational.  *)
(***************************************************************************)
InstructionIds == 1..MaxInstructions
InstructionActions == {"buy", "sell", "add", "trim", "hold"}
InstructionRatios == {10, 50, 100}
\* quotes of the symbol, in fen
CorePrices == {9000, 10000}
\* execution_status in the order the instructions go through them
StatusRank(status) == CASE status = "pending" -> 0 [] status = "partial" -> 1 [] OTHER -> 2

\* an id the remote service has no instruction for
NoInstruction == [action |-> "none", position_ratio |-> 0, execution_status |-> "none",
                  is_active |-> FALSE]
\* the symbol is not a key of Account.positions
NoPosition == [held |-> FALSE, total_volume |-> 0, available_volume |-> 0, frozen_volume |-> 0,
               latest_price |-> 0, market_value |-> 0, original_position_ratio |-> <<0, 1>>]
\* no order was placed for the instruction
NoOrder == [status |-> "none", side |-> "none", price |-> 0, volume |-> 0,
            placed_available |-> 0, placed_frozen |-> 0]

\* GET account/funds and GET positions are not answered
NoAnswer == [answered |-> FALSE, available_funds |-> 0, frozen_funds |-> 0, total_assets |-> 0,
             positions |-> <<>>]
\* the answers of an account without a holding and of one holding 200 shares
FundsFlat == [answered |-> TRUE, available_funds |-> 1000000, frozen_funds |-> 0,
              total_assets |-> 1000000, positions |-> <<>>]
FundsHolding == [answered |-> TRUE, available_funds |-> 1000000, frozen_funds |-> 0,
                 total_assets |-> 3000000,
                 positions |-> <<[total_volume |-> 200, frozen_volume |-> 0,
                                  latest_price |-> 10000, market_value |-> 2000000,
                                  original_position_ratio |-> 10]>>]
FundsAnswers == {NoAnswer, FundsFlat, FundsHolding}

\* Position.create followed by the assignments of the fields the service reports
PositionFromRow(pos) ==
    [held |-> TRUE, total_volume |-> pos.total_volume,
     available_volume |-> pos.total_volume - pos.frozen_volume,
     frozen_volume |-> pos.frozen_volume, latest_price |-> pos.latest_price,
     market_value |-> pos.market_value,
     original_position_ratio |-> <<pos.original_position_ratio, 1>>]

UpdateAccountInfo(acc) ==
    [acc EXCEPT !.total_assets = acc.available_funds + acc.frozen_funds
                                   + acc.position.market_value]

\* SimulatedBroker.connect on an account without a holding
ConnectedAccount == [available_funds |-> FundsFlat.available_funds,
                     frozen_funds |-> FundsFlat.frozen_funds,
                     total_assets |-> FundsFlat.total_assets, position |-> NoPosition]

\* no order of the instruction was filled
NoFill == [side |-> "none", total_assets |-> 0, volume_before |-> 0, volume |-> 0,
           volume_after |-> 0, market_value_after |-> 0, ratio_before |-> <<0, 1>>,
           ratio_after |-> <<0, 1>>, amount |-> 0, available_after |-> 0,
           frozen_after |-> 0, execution_status |-> "none"]

CoreInit ==
    /\ strategies = [id \in InstructionIds |-> NoInstruction]
    /\ account = ConnectedAccount
    /\ orders = [id \in InstructionIds |-> NoOrder]
    /\ status_moves = [id \in InstructionIds |-> {}]
    /\ passes = 0
    /\ fills = [id \in InstructionIds |-> NoFill]

(***************************************************************************)
(* TradeService (src/src/services/trade_service.py) on its position file   *)
(***************************************************************************)
\* a symbol that is not a key of the position file
NoHolding == [quantity |-> 0, average_price |-> <<0, 1>>]
ServiceQuantities == {100, 200}
ServicePrices == {90, 100}
NoServiceCall == [seq |-> 0, op |-> "none", code |-> "s1", price |-> 0, quantity |-> 0,
                  success |-> FALSE, traded |-> 0]

\* TradeService.__init__ where no position file exists
TradeInit ==
    /\ service_positions = [c \in Codes |-> NoHolding]
    /\ service_last = NoServiceCall

\* TradeService._update_position
UpdatePosition(holdings, code, price, quantity, action) ==
    LET old == holdings[code] IN
    IF action = "buy"
    THEN [holdings EXCEPT ![code] =
             IF old = NoHolding THEN [quantity |-> quantity, average_price |-> <<price, 1>>]
             ELSE [quantity |-> old.quantity + quantity,
                   average_price |-> Rat(old.quantity * old.average_price[1]
                                             + quantity * price * old.average_price[2],
                                         old.average_price[2] * (old.quantity + quantity))]]
    ELSE [holdings EXCEPT ![code] =
             IF old.quantity - quantity = 0 THEN NoHolding
             ELSE [old EXCEPT !.quantity = @ - quantity]]

\* a call of TradeService counts as a handler call and touches nothing else
TradeUnchanged ==
    /\ calls' = calls + 1
    /\ UNCHANGED <<positions_file, assets_file, total_cash, cash, trade_times, last_update,
                   executions, emission, now, weekday, startTod, api, remote, last, spent,
                   trade_log,
                   lockVars, sizeVars, coreVars, loadVars, unitVars>>

\* TradeService.buy_stock
ServiceBuyStock(code, price, quantity) ==
    /\ calls < MaxCalls
    /\ service_positions' = UpdatePosition(service_positions, code, price, quantity, "buy")
    /\ service_last' = [seq |-> service_last.seq + 1, op |-> "buy", code |-> code,
                        price |-> price, quantity |-> quantity, success |-> TRUE,
                        traded |-> quantity]
    /\ TradeUnchanged

\* the check of sell_stock: the symbol is held in at least the quantity
ServiceSufficient_AnyHolding(holdings, code, quantity) == holdings[code] # NoHolding

ServiceSufficient(holdings, code, quantity) ==
    ~(holdings[code] = NoHolding \/ holdings[code].quantity < quantity)

\* TradeService.sell_stock
ServiceSellStock(code, price, quantity) ==
    /\ calls < MaxCalls
    /\ LET ok == ServiceSufficient(service_positions, code, quantity) IN
          /\ service_positions' = IF ok THEN UpdatePosition(service_positions, code, price,
                                                            quantity, "sell")
                                  ELSE service_positions
          /\ service_last' = [seq |-> service_last.seq + 1, op |-> "sell", code |-> code,
                              price |-> price, quantity |-> quantity, success |-> ok,
                              traded |-> IF ok THEN quantity ELSE 0]
    /\ TradeUnchanged

(***************************************************************************)
(* Loading the ledger files: StockTrader._load_positions, _load_assets and *)
(* PositionManager.initialize_data on the files they may find              *)
(***************************************************************************)
\* what a ledger file may be on disk: missing, of size 0, not JSON, JSON that
\* fails the validation, or valid
FileStates == {"missing", "empty", "unparseable", "invalid", "valid"}

\* a positions.json whose row holds no shares, an assets.json with negative cash
InvalidPositions ==
    [c \in Codes |-> IF c = "s1" THEN [volume |-> 0, price |-> <<100, 1>>] ELSE NoPos]
InvalidAssets == [InitialAssets(INITIAL_CASH) EXCEPT !.cash = -1]

\* json.load of the file succeeds
Parses(state) == state \in {"valid", "invalid"}

\* the content json.load gives for a file that parses
Content(state, valid, invalid) == IF state = "valid" THEN valid ELSE invalid

\* StockTrader._load_positions on a file in that state: the remote list when it is
\* not empty; else _ensure_position_file writes {} over a missing or empty file and
\* json.load reads the file, outside any try
LoadPositionsFrom(env, state, pf) ==
    IF Listed(GetPosition(env)) = {} /\ state = "unparseable"
    THEN [raised |-> TRUE, positions |-> EmptyPositions]
    ELSE [raised |-> FALSE,
          positions |-> LoadPositions(env, IF Parses(state)
                                           THEN Content(state, pf, InvalidPositions)
                                           ELSE EmptyPositions)]

\* StockTrader._load_assets on a file in that state: the remote funds when they are
\* not zero; else _ensure_assets_file writes the initial assets over a missing or
\* empty file, and every exception of the read gives the initial assets
LoadAssetsFrom(env, state, af) ==
    [raised |-> FALSE,
     assets |-> LoadAssets(env, IF Parses(state) THEN Content(state, af, InvalidAssets)
                                ELSE InitialAssets(INITIAL_CASH))]

\* PositionManager.initialize_data: a file that exists is read with json.load and kept
\* as read, a missing one gives the initial data; every exception is raised again
InitializeData(pstate, astate, pf, af) ==
    IF (pstate # "missing" /\ ~Parses(pstate)) \/ (astate # "missing" /\ ~Parses(astate))
    THEN [raised |-> TRUE, positions |-> EmptyPositions, cash |-> 0]
    ELSE [raised |-> FALSE,
          positions |-> IF pstate = "missing" THEN EmptyPositions
                        ELSE Content(pstate, pf, InvalidPositions),
          cash |-> IF astate = "missing" THEN INITIAL_CASH
                   ELSE Content(astate, af, InvalidAssets).cash]

NoLoading == [fn |-> "none", positions_state |-> "valid", assets_state |-> "valid",
              raised |-> FALSE, positions |-> EmptyPositions, cash |-> 0]
LoadInit == loading = NoLoading

LoadUnchanged == UNCHANGED <<ledgerVars, lockVars, sizeVars, coreVars, tradeVars, unitVars>>

CallLoadPositions(env, state) ==
    /\ \E out \in {LoadPositionsFrom(env, state, positions_file)} :
          loading' = [fn |-> "load_positions", positions_state |-> state,
                      assets_state |-> "valid", raised |-> out.raised,
                      positions |-> out.positions, cash |-> 0]
    /\ LoadUnchanged

CallLoadAssets(env, state) ==
    /\ \E out \in {LoadAssetsFrom(env, state, assets_file)} :
          loading' = [fn |-> "load_assets", positions_state |-> "valid",
                      assets_state |-> state, raised |-> out.raised,
                      positions |-> EmptyPositions, cash |-> out.assets.cash]
    /\ LoadUnchanged

CallInitializeData(pstate, astate) ==
    /\ \E out \in {InitializeData(pstate, astate, positions_file, assets_file)} :
          loading' = [fn |-> "initialize_data", positions_state |-> pstate,
                      assets_state |-> astate, raised |-> out.raised,
                      positions |-> out.positions, cash |-> out.cash]
    /\ LoadUnchanged

(***************************************************************************)
(* The answers of the remote service as the client reads them:             *)
(* strategy.StrategyManager.fetch_active_strategies, StockTrader           *)
(* ._get_position and ._get_total_assets                                   *)
(***************************************************************************)
\* the transport status of an answer; NoAnswerStatus when the request raises
NoAnswerStatus == 0
TransportStatuses == {200, 500, NoAnswerStatus}
\* the code field of the JSON body
EmbeddedCodes == {200, 500}
\* an answer: transport status, embedded code, and whether the body carries its data
\* (the strategies, the position rows, the funds) or null
Responses == [status : TransportStatuses, code : EmbeddedCodes, has_data : BOOLEAN]

\* the data the service holds: two instructions, the account holding s1
ServiceStrategyIds == StrategyIds \ {NoStrategy}
ServiceAccount == RemoteHolding
NoRows == [c \in Codes |-> NoRemotePos]

\* strategy.StrategyManager.fetch_active_strategies: raise_for_status, then the data
\* when result['code'] == 200; every exception gives []
FetchActiveStrategies(resp) ==
    IF resp.status # 200 THEN {}
    ELSE IF resp.code = 200 THEN (IF resp.has_data THEN ServiceStrategyIds ELSE {})
    ELSE {}

\* StockTrader._get_position on a service that answers every path alike: the rows of
\* a body with status 200 whose data is a list; the code field is not read
GetPositionOf(resp) ==
    IF resp.status = 200 /\ resp.has_data THEN ServiceAccount.positions ELSE NoRows

\* StockTrader._get_total_assets on that service: the funds of a body with status 200
\* and code 200; else the market value of the rows _get_position returns, with the
\* available_cash of the local assets (a key assets.json does not have); else zeros
GetTotalAssetsOf(resp) ==
    IF resp.status = 200 /\ resp.code = 200 /\ resp.has_data
    THEN [cash |-> ServiceAccount.available_cash, total_assets |-> ServiceAccount.total_assets]
    ELSE IF Listed(GetPositionOf(resp)) # {}
    THEN [cash |-> 0,
          total_assets |-> SumOver(Codes, [c \in Codes |-> GetPositionOf(resp)[c].market_value])]
    ELSE [cash |-> 0, total_assets |-> 0]

(***************************************************************************)
(* strategy.StrategyManager.validate_strategy on the instructions the      *)
(* service may send: a field is a record [kind, value], its kind telling   *)
(* whether the key is absent, null, '', a text that is no number, a number *)
(* or a boolean                                                            *)
(***************************************************************************)
Field(kind, value) == [kind |-> kind, value |-> value]
Absent == Field("absent", 0)
Null == Field("null", 0)
EmptyText == Field("empty", 0)
Text == Field("text", 0)
Number(n) == Field("number", n)

\* a bound that was not given counts as +infinity
Infinity == 1000000

TextFields == {Absent, Null, Field("text", 0)}
ActiveFields == {Absent, Null, Field("bool", 1), Field("bool", 0)}
RatioFields == {Absent, Null, Text} \cup {Number(n) : n \in {-10, 0, 10, 30, 40}}
PriceMinFields == {Absent, Null, EmptyText, Text} \cup {Number(n) : n \in {-1, 0, 100, 200}}
PriceMaxFields == {Absent, Null, EmptyText, Text} \cup {Number(n) : n \in {0, 100, 150}}
Instructions == [stock_code : TextFields, action : TextFields, position_ratio : RatioFields,
                 is_active : ActiveFields, price_min : PriceMinFields,
                 price_max : PriceMaxFields]

\* `field not in strategy` or `strategy[field] is None`
Missing(field) == field.kind \in {"absent", "null"}

\* float(x) raises ValueError
NoFloat(field) == field.kind \in {"text", "empty"}

\* price_min / price_max after `if x is None or x == ''`: the default, else float(x)
PriceOr(field, default) ==
    IF field.kind \in {"absent", "null", "empty"} THEN default ELSE field.value

\* the ratio checks without the one against the configured ceiling
RatioValid_NoCeiling(position_ratio) == ~(position_ratio <= 0)

\* the ratio checks of validate_strategy
RatioValid(position_ratio) ==
    /\ ~(position_ratio > max_position_ratio)
    /\ ~(position_ratio <= 0)

\* strategy.StrategyManager.validate_strategy
ValidateStrategy(strategy) ==
    IF \E f \in {strategy.stock_code, strategy.action, strategy.position_ratio,
                 strategy.is_active} : Missing(f)
    THEN FALSE
    ELSE IF strategy.is_active.value = 0 THEN FALSE
    ELSE IF NoFloat(strategy.position_ratio) THEN FALSE
    ELSE IF strategy.price_min.kind = "text" \/ strategy.price_max.kind = "text" THEN FALSE
    ELSE LET price_min == PriceOr(strategy.price_min, 0)
             price_max == PriceOr(strategy.price_max, Infinity)
         IN  /\ RatioValid(strategy.position_ratio.value)
             /\ ~(price_min < 0)
             /\ ~(price_min > price_max)

NoValidation == [called |-> FALSE,
                 strategy |-> [stock_code |-> Absent, action |-> Absent,
                               position_ratio |-> Absent, is_active |-> Absent,
                               price_min |-> Absent, price_max |-> Absent],
                 result |-> FALSE]

\* one instruction is validated in a behaviour
CallValidateStrategy ==
    /\ ~validation.called
    /\ \E strategy \in Instructions :
          validation' = [called |-> TRUE, strategy |-> strategy,
                         result |-> ValidateStrategy(strategy)]
    /\ UNCHANGED <<answer, order_object>>
    /\ UNCHANGED <<ledgerVars, lockVars, sizeVars, coreVars, tradeVars, loadVars>>

NoAnswered == [fn |-> "none", response |-> [status |-> NoAnswerStatus, code |-> 200,
                                            has_data |-> FALSE],
               strategies |-> {}, rows |-> {}, total_assets |-> 0, cash |-> 0]
\* no Order was created
NoOrderObject == [status |-> "none", volume |-> 0, filled_volume |-> 0, filled_amount |-> 0,
                  status_message |-> ""]

UnitInit == answer = NoAnswered /\ validation = NoValidation /\ order_object = NoOrderObject

UnitUnchanged == UNCHANGED <<ledgerVars, lockVars, sizeVars, coreVars, tradeVars, loadVars>>

CallFetchActiveStrategies(resp) ==
    /\ answer' = [NoAnswered EXCEPT !.fn = "fetch_active_strategies", !.response = resp,
                                    !.strategies = FetchActiveStrategies(resp)]
    /\ UNCHANGED <<validation, order_object>>
    /\ UnitUnchanged

CallGetPosition(resp) ==
    /\ answer' = [NoAnswered EXCEPT !.fn = "get_position", !.response = resp,
                                    !.rows = Listed(GetPositionOf(resp))]
    /\ UNCHANGED <<validation, order_object>>
    /\ UnitUnchanged

CallGetTotalAssets(resp) ==
    /\ answer' = [NoAnswered EXCEPT !.fn = "get_total_assets", !.response = resp,
                                    !.total_assets = GetTotalAssetsOf(resp).total_assets,
                                    !.cash = GetTotalAssetsOf(resp).cash]
    /\ UNCHANGED <<validation, order_object>>
    /\ UnitUnchanged

\* no sizing function has been called
NoSizing == [fn |-> "none", volume_step |-> volume_step, min_volume |-> min_volume,
             amount |-> 0, price |-> 0, holdings |-> 0, ratio |-> 0, original |-> 0,
             volume |-> 0]
SizingInit == sizing = NoSizing

Init == LedgerInit /\ LockInit /\ SizingInit /\ CoreInit /\ TradeInit /\ LoadInit /\ UnitInit

Next ==
    \/ \E q \in Quotes, c \in Codes, lo \in MinPrices, hi \in MaxPrices, r \in BuyRatios :
          BuyStock(Env(q), c, lo, hi, r)
    \/ \E q \in Quotes, c \in Codes, r \in TargetRatios, st \in ExecutionStatuses :
          ExecuteStrategy(Env(q), c, NoBound, NoBound, r, st)
    \/ \E q \in Quotes, c \in Codes, st \in ExecutionStatuses : ExecuteHold(Env(q), c, st)
    \/ \E q \in Quotes, c \in Codes, lo \in MinPrices, hi \in MaxPrices, r \in SellRatios,
          id \in StrategyIds : SellStock(Env(q), c, lo, hi, r, id)
    \/ \E q \in Quotes : UpdatePositions(Env(q))
    \/ Tick

Spec == Init /\ [][Next]_vars

(***************************************************************************)
(* The trader while the remote service changes between its calls: an       *)
(* outage begins or ends, the account it reports is another one            *)
(***************************************************************************)
\* every symbol quoted at 100
FlatQuote == [c \in Codes |-> 100]

ServiceChange ==
    /\ \E a \in ApiStates, r \in Remotes :
          /\ a # "ok" => r = RemoteFlat
          /\ <<a, r>> # <<api, remote>>
          /\ api' = a
          /\ remote' = r
    /\ UNCHANGED <<positions_file, assets_file, total_cash, cash, trade_times, last_update,
                   executions, emission, now, weekday, startTod, calls, last, spent, trade_log,
                   lockVars, sizeVars, coreVars, tradeVars, loadVars, unitVars>>

NextService ==
    \/ \E c \in Codes, r \in BuyRatios : BuyStock(Env(FlatQuote), c, NoBound, NoBound, r)
    \/ \E c \in Codes, r \in SellRatios :
          SellStock(Env(FlatQuote), c, NoBound, NoBound, r, NoStrategy)
    \/ UpdatePositions(Env(FlatQuote))
    \/ Tick
    \/ ServiceChange

SpecService == Init /\ [][NextService]_vars

(***************************************************************************)
(* Two processes taking the FileLock of one ledger file, and a reader      *)
(***************************************************************************)
\* one trader built; its handlers are not called
InitLock ==
    /\ LedgerInit
    /\ api = "error" /\ remote = RemoteFlat /\ positions_file = HeldLedger.pf
    /\ LockInit
    /\ SizingInit
    /\ CoreInit
    /\ TradeInit
    /\ LoadInit
    /\ UnitInit

NextLock ==
    \/ \E p \in Procs : Enter(p)
    \/ \E p \in Procs : CheckStale(p)
    \/ \E p \in Procs : RemoveStale(p)
    \/ \E p \in Procs : OpenLock(p)
    \/ \E p \in Procs : TryLock(p)
    \/ \E p \in Procs : Retry(p)
    \/ \E p \in Procs : WriteStamp(p)
    \/ \E p \in Procs : SaveOpen(p)
    \/ \E p \in Procs : SaveFlush(p)
    \/ \E p \in Procs : SaveClose(p)
    \/ \E p \in Procs : ExitUnlock(p)
    \/ \E p \in Procs : ExitRemove(p)
    \/ ReadLedger
    \/ \E d \in ClockSteps : ClockTick(d)

SpecLock == InitLock /\ [][NextLock]_vars

(***************************************************************************)
(* The sizing functions under the configurations trading.volume_step and   *)
(* trading.min_volume can take                                             *)
(***************************************************************************)
VolumeConfigs == {[volume_step |-> 100, min_volume |-> 100],
                  [volume_step |-> 100, min_volume |-> 200],
                  [volume_step |-> 100, min_volume |-> 150]}
SizingAmounts == {0, 9000, 16000, 100000}
SizingPrices == {90, 100}
SizingHoldings == {0, 50, 150, 250, 1000}
SizingRatios == {10, 50, 100}
OriginalRatios == {0, 10, 20}

SizingUnchanged == UNCHANGED <<ledgerVars, lockVars, coreVars, tradeVars, loadVars, unitVars>>

CallSizeBuy(cfg, target_amount, price) ==
    /\ sizing' = [fn |-> "buy", volume_step |-> cfg.volume_step, min_volume |-> cfg.min_volume,
                  amount |-> target_amount, price |-> price, holdings |-> 0, ratio |-> 0,
                  original |-> 0,
                  volume |-> SizeBuy(target_amount, price, cfg.volume_step, cfg.min_volume)]
    /\ SizingUnchanged

CallSizeSell(cfg, position_ratio, current_holdings) ==
    /\ sizing' = [fn |-> "sell", volume_step |-> cfg.volume_step, min_volume |-> cfg.min_volume,
                  amount |-> 0, price |-> 0, holdings |-> current_holdings,
                  ratio |-> position_ratio, original |-> 0,
                  volume |-> SizeSell(position_ratio, current_holdings,
                                      cfg.volume_step, cfg.min_volume)]
    /\ SizingUnchanged

CallSizeTrim(cfg, trim_ratio, original_position_ratio, current_holdings) ==
    /\ sizing' = [fn |-> "trim", volume_step |-> cfg.volume_step, min_volume |-> cfg.min_volume,
                  amount |-> 0, price |-> 0, holdings |-> current_holdings,
                  ratio |-> trim_ratio, original |-> original_position_ratio,
                  volume |-> SizeTrim(trim_ratio, original_position_ratio, current_holdings,
                                      cfg.volume_step, cfg.min_volume)]
    /\ SizingUnchanged

\* one trader built; only its sizing functions are called
InitSizing == InitLock

NextSizing ==
    \/ \E cfg \in VolumeConfigs, t \in SizingAmounts, p \in SizingPrices : CallSizeBuy(cfg, t, p)
    \/ \E cfg \in VolumeConfigs, r \in SizingRatios, h \in SizingHoldings :
          CallSizeSell(cfg, r, h)
    \/ \E cfg \in VolumeConfigs, r \in SizingRatios, o \in OriginalRatios, h \in SizingHoldings :
          CallSizeTrim(cfg, r, o, h)

SpecSizing == InitSizing /\ [][NextSizing]_vars

(***************************************************************************)
(* StrategyManager._monitor_strategies: one pass over the instructions     *)
(* fetched from the remote service.  A state s of the pass is the record   *)
(* [strategies, account, orders, status_moves, fills].                     *)
(***************************************************************************)
\* a PUT strategies/<id> of execution_status, with is_active False when deactivate;
\* the service then holds what was put
UpdateStrategy(s, id, execution_status, deactivate) ==
    [s EXCEPT !.strategies[id].execution_status = execution_status,
              !.strategies[id].is_active = IF deactivate THEN FALSE ELSE @,
              !.status_moves[id] = @ \cup {<<s.strategies[id].execution_status,
                                             execution_status>>}]

Commission(amount) == amount \div 4000
Tax(amount) == amount \div 1000

GetAccount(acc, funds) ==
    IF ~funds.answered THEN acc
    ELSE LET a == [acc EXCEPT !.available_funds = funds.available_funds,
                              !.frozen_funds = funds.frozen_funds,
                              !.total_assets = funds.total_assets]
         IN  IF funds.positions = <<>> THEN a
             ELSE UpdateAccountInfo([a EXCEPT !.position = PositionFromRow(funds.positions[1])])

ShouldExecute(strategy, ords) ==
    /\ strategy.execution_status \in {"pending", "partial"}
    /\ strategy.is_active
    /\ \A id \in InstructionIds : ords[id].status # "pending"

\* Position.add
PositionAdd(position, volume, position_ratio) ==
    [position EXCEPT !.total_volume = @ + volume,
                     !.available_volume = @ + volume,
                     !.market_value = (position.total_volume + volume) * position.latest_price,
                     !.original_position_ratio =
                         IF position_ratio > 0 THEN Rat(@[1] + position_ratio * @[2], @[2])
                         ELSE @]

\* Position.reduce by a volume the position has available, with the new_ratio
\* original_position_ratio * (1 - volume / total_volume) that _simulate_trade passes
PositionReduce(position, volume) ==
    IF position.total_volume - volume > 0
    THEN [position EXCEPT !.total_volume = @ - volume,
                          !.available_volume = @ - volume,
                          !.market_value = (position.total_volume - volume) * position.latest_price,
                          !.original_position_ratio =
                              IF @[1] > 0 THEN Rat(@[1] * volume, @[2] * position.total_volume)
                              ELSE @]
    ELSE [position EXCEPT !.total_volume = 0, !.available_volume = @ - volume,
                          !.market_value = 0, !.original_position_ratio = <<0, 1>>]

\* the account after a buy order of the volume is filled at current_price
FillBuy(acc, volume, current_price, position_ratio) ==
    LET amount == current_price * volume
        total_amount == amount + Commission(amount)
        unfrozen == IF total_amount <= 0 \/ total_amount > acc.frozen_funds THEN acc
                    ELSE [acc EXCEPT !.available_funds = @ + total_amount,
                                     !.frozen_funds = @ - total_amount]
        position == acc.position
    IN  IF position.held
        THEN [unfrozen EXCEPT !.position =
                 PositionAdd(IF position.total_volume = 0
                             THEN [position EXCEPT !.original_position_ratio =
                                                      <<position_ratio, 1>>]
                             ELSE position, volume, position_ratio)]
        ELSE UpdateAccountInfo([unfrozen EXCEPT !.position =
                 PositionAdd([NoPosition EXCEPT !.held = TRUE, !.latest_price = current_price,
                                                !.original_position_ratio = <<position_ratio, 1>>],
                             volume, position_ratio)])

\* the account after a sell order of the volume, frozen by place_order, is filled
FillSell(acc, volume, current_price) ==
    LET amount == current_price * volume
        total_amount == amount + Commission(amount) + Tax(amount)
        unfrozen == [acc.position EXCEPT !.available_volume = @ + volume,
                                         !.frozen_volume = @ - volume]
        reduced == PositionReduce(unfrozen, volume)
        a == IF reduced.total_volume = 0
             THEN UpdateAccountInfo([acc EXCEPT !.position = NoPosition])
             ELSE [acc EXCEPT !.position = reduced]
    IN  [a EXCEPT !.available_funds = @ + total_amount]

\* what _simulate_trade did for the instruction: the account it filled the order on,
\* the account after the fill, the execution_status it put
FillOf(side, before, after, volume, amount, execution_status) ==
    [side |-> side, total_assets |-> before.total_assets,
     volume_before |-> before.position.total_volume, volume |-> volume,
     volume_after |-> after.position.total_volume,
     market_value_after |-> after.position.market_value,
     ratio_before |-> before.position.original_position_ratio,
     ratio_after |-> after.position.original_position_ratio,
     amount |-> amount, available_after |-> after.available_funds,
     frozen_after |-> after.frozen_funds,
     execution_status |-> execution_status]

\* the state after the fill of the order, given the account after it
Filled(s, id, side, volume, amount, after) ==
    UpdateStrategy([s EXCEPT !.orders[id].status = "filled",
                             !.account = after,
                             !.fills[id] = FillOf(side, s.account, after, volume, amount,
                                                  "completed")],
                   id, "completed", TRUE)

\* SimulatedBroker._simulate_trade of the limit order stored for the instruction
SimulateTrade(s, id, side, price, volume, position_ratio, current_price) ==
    IF ~(IF side = "buy" THEN price >= current_price ELSE price <= current_price) THEN s
    ELSE Filled(s, id, side, volume, current_price * volume,
                IF side = "buy" THEN FillBuy(s.account, volume, current_price, position_ratio)
                ELSE FillSell(s.account, volume, current_price))

\* SimulatedBroker.place_order: the state after it, and what it returns
PlaceOrder(s, id, side, price, volume, position_ratio, env) ==
    LET acc == s.account
        total_amount == price * volume + Commission(price * volume)
        refused == [s |-> s, placed |-> FALSE]
        stored(a) == [s EXCEPT !.account = a,
                               !.orders[id] = [status |-> "pending", side |-> side,
                                               price |-> price, volume |-> volume,
                                               placed_available |-> acc.available_funds,
                                               placed_frozen |-> acc.frozen_funds]]
        traded(a) == [s |-> SimulateTrade(stored(a), id, side, price, volume, position_ratio,
                                          env.fill_quote),
                      placed |-> TRUE]
    IN  IF ~env.trading_time \/ price <= 0 \/ volume <= 0 THEN refused
        ELSE IF side = "buy"
        THEN IF volume % 100 # 0 \/ total_amount <= 0 \/ total_amount > acc.available_funds
             THEN refused
             ELSE traded([acc EXCEPT !.available_funds = @ - total_amount,
                                     !.frozen_funds = @ + total_amount])
        ELSE IF ~acc.position.held \/ volume > acc.position.available_volume THEN refused
             ELSE traded([acc EXCEPT !.position.available_volume = @ - volume,
                                     !.position.frozen_volume = @ + volume])

\* the end of execute_strategy: the order is created and placed
SubmitOrder(placed, id) ==
    UpdateStrategy(placed.s, id, IF placed.placed THEN "partial" ELSE "pending", FALSE)

\* int(total_volume * (position_ratio / original_position_ratio)) in whole lots
RatioVolume(total_volume, position_ratio, original) ==
    (((total_volume * position_ratio * original[2]) \div original[1]) \div 100) * 100

\* StrategyManager.execute_strategy on the account that get_account returned
ExecuteOnAccount(s, id, strategy, env, acc) ==
    LET position == acc.position
        action == strategy.action
        position_ratio == strategy.position_ratio
        current_price == env.quote
        side == IF action \in {"sell", "trim"} THEN "sell" ELSE "buy"
        \* 100 * target_amount
        target == acc.total_assets * position_ratio
                    - (IF action = "buy" /\ position.held THEN 100 * position.market_value ELSE 0)
        volume ==
            IF action = "buy" \/ (action = "add" /\ ~position.held)
            THEN IF target <= 0 THEN 0 ELSE (target \div (100 * current_price * 100)) * 100
            ELSE IF action = "sell"
            THEN (((position.total_volume * position_ratio) \div 100) \div 100) * 100
            ELSE IF position.original_position_ratio[1] <= 0 THEN 0
            ELSE RatioVolume(position.total_volume, position_ratio,
                             position.original_position_ratio)
    IN  CASE action = "hold" -> UpdateStrategy(s, id, "completed", TRUE)
          [] action = "buy" /\ target <= 0 -> UpdateStrategy(s, id, "completed", TRUE)
          [] action \in {"sell", "trim"} /\ ~position.held ->
                UpdateStrategy(s, id, "completed", TRUE)
          [] action \notin InstructionActions -> UpdateStrategy(s, id, "completed", TRUE)
          [] OTHER ->
                IF volume = 0 THEN UpdateStrategy(s, id, "pending", FALSE)
                ELSE IF action = "add" /\ position.held
                        /\ volume * current_price > acc.available_funds
                THEN UpdateStrategy(s, id, "pending", FALSE)
                ELSE IF action = "trim" /\ volume > position.available_volume
                THEN UpdateStrategy(s, id, "pending", FALSE)
                ELSE SubmitOrder(PlaceOrder(s, id, side, current_price, volume,
                                            position_ratio, env), id)

ExecuteStrategyOf(s, id, strategy, env) ==
    ExecuteOnAccount([s EXCEPT !.account = GetAccount(s.account, env.funds)], id, strategy, env,
                     GetAccount(s.account, env.funds))

\* the loop over the fetched instructions, from the instruction id on
RECURSIVE MonitorFrom(_, _, _, _)
MonitorFrom(s, id, fetched, env) ==
    IF id > MaxInstructions THEN s
    ELSE MonitorFrom(IF fetched[id] # NoInstruction /\ ShouldExecute(fetched[id], s.orders)
                     THEN ExecuteStrategyOf(s, id, fetched[id], env)
                     ELSE s,
                     id + 1, fetched, env)

\* what a pass is answered: the account, the quote execute_strategy reads, the quote
\* _simulate_trade reads, and is_trading_time
CoreEnvs == [funds : FundsAnswers, quote : CorePrices, fill_quote : CorePrices,
             trading_time : BOOLEAN]

CoreUnchanged == UNCHANGED <<ledgerVars, lockVars, sizeVars, tradeVars, loadVars, unitVars>>

MonitorStrategies(env) ==
    /\ passes < MaxPasses
    /\ passes' = passes + 1
    /\ \E id \in InstructionIds : strategies[id] # NoInstruction
    /\ \E s \in {MonitorFrom([strategies |-> strategies, account |-> account,
                              orders |-> orders, status_moves |-> status_moves,
                              fills |-> fills],
                             1, strategies, env)} :
          /\ strategies' = s.strategies
          /\ account' = s.account
          /\ orders' = s.orders
          /\ status_moves' = s.status_moves
          /\ fills' = s.fills
    /\ CoreUnchanged

\* SimulatedBroker.cancel_order of the order placed for the instruction
CancelOrder(id) ==
    /\ orders[id].status = "pending"
    /\ LET order == orders[id]
           amount == order.price * order.volume
           position == account.position
       IN  account' =
               IF order.side = "buy"
               THEN IF amount <= 0 \/ amount > account.frozen_funds THEN account
                    ELSE [account EXCEPT !.available_funds = @ + amount,
                                         !.frozen_funds = @ - amount]
               ELSE IF ~position.held \/ order.volume > position.frozen_volume THEN account
                    ELSE [account EXCEPT !.position.available_volume = @ + order.volume,
                                         !.position.frozen_volume = @ - order.volume]
    /\ orders' = [orders EXCEPT ![id].status = "cancelled"]
    /\ UNCHANGED <<strategies, status_moves, passes, fills>>
    /\ CoreUnchanged

\* the remote service is given its next instruction: pending and active
ServiceIssues(id, action, position_ratio) ==
    /\ strategies[id] = NoInstruction
    /\ \A i \in InstructionIds : i < id => strategies[i] # NoInstruction
    /\ strategies' = [strategies EXCEPT ![id] =
                         [action |-> action, position_ratio |-> position_ratio,
                          execution_status |-> "pending", is_active |-> TRUE]]
    /\ UNCHANGED <<account, orders, status_moves, passes, fills>>
    /\ CoreUnchanged

\* the desktop client started; the ledger handlers are not called
InitStrategy == InitLock

NextStrategy ==
    \/ \E env \in CoreEnvs : MonitorStrategies(env)
    \/ \E id \in InstructionIds : CancelOrder(id)
    \/ \E id \in InstructionIds, a \in InstructionActions, r \in InstructionRatios :
          ServiceIssues(id, a, r)

SpecStrategy == InitStrategy /\ [][NextStrategy]_vars

(***************************************************************************)
(* The sellers: StockTrader.sell_stock and TradeService on their ledgers   *)
(***************************************************************************)
NextSell ==
    \/ \E q \in Quotes, c \in Codes, lo \in MinPrices, hi \in MaxPrices, r \in SellRatios,
          id \in StrategyIds :
          SellStock(Env(q), c, lo, hi, r, id)
    \/ Tick
    \/ \E c \in Codes, p \in ServicePrices, n \in ServiceQuantities : ServiceBuyStock(c, p, n)
    \/ \E c \in Codes, p \in ServicePrices, n \in ServiceQuantities : ServiceSellStock(c, p, n)

SpecSell == Init /\ [][NextSell]_vars

(***************************************************************************)
(* sell_stock while the quote may move between its two reads               *)
(***************************************************************************)
NextGuards ==
    \/ \E q \in Quotes, q2 \in Quotes, c \in Codes, lo \in MinPrices, hi \in MaxPrices,
          r \in SellRatios : SellStock(EnvQ(q, q2), c, lo, hi, r, NoStrategy)
    \/ Tick

SpecGuards == Init /\ [][NextGuards]_vars

(***************************************************************************)
(* The loaders on every state a ledger file may be found in                *)
(***************************************************************************)
NextLoad ==
    \/ \E st \in FileStates : CallLoadPositions(Env(FlatQuote), st)
    \/ \E st \in FileStates : CallLoadAssets(Env(FlatQuote), st)
    \/ \E pst \in FileStates, ast \in FileStates : CallInitializeData(pst, ast)

SpecLoad == Init /\ [][NextLoad]_vars

(***************************************************************************)
(* The readers of the remote service on every answer it may give           *)
(***************************************************************************)
NextAnswer ==
    \/ \E resp \in Responses : CallFetchActiveStrategies(resp)
    \/ \E resp \in Responses : CallGetPosition(resp)
    \/ \E resp \in Responses : CallGetTotalAssets(resp)

SpecAnswer == Init /\ [][NextAnswer]_vars

(***************************************************************************)
(* validate_strategy on every instruction of the input domain              *)
(***************************************************************************)
NextValidate == CallValidateStrategy

SpecValidate == Init /\ [][NextValidate]_vars

(***************************************************************************)
(* Order (src/src/models/order.py): one order and the calls on it          *)
(***************************************************************************)
OrderVolumes == {100, 200}
FilledVolumes == {0, 100, 200}
FilledPrices == {90, 100}
RejectMessages == {"invalid price", "invalid volume"}

\* Order.is_final
IsFinal(o) == o.status \in {"filled", "cancelled", "rejected", "expired"}

\* Order.create_limit_order
CreateLimitOrder(volume) ==
    /\ order_object = NoOrderObject
    /\ order_object' = [status |-> "pending", volume |-> volume, filled_volume |-> 0,
                        filled_amount |-> 0, status_message |-> "pending"]
    /\ UNCHANGED <<answer, validation>>
    /\ UnitUnchanged

\* Order.update_filled
UpdateFilled(filled_volume, filled_price) ==
    /\ order_object # NoOrderObject
    /\ order_object.filled_volume + filled_volume <= MaxFilled
    /\ order_object' =
          IF filled_volume <= 0 THEN order_object
          ELSE LET total == order_object.filled_volume + filled_volume IN
               [order_object EXCEPT
                   !.filled_volume = total,
                   !.filled_amount = @ + filled_volume * filled_price,
                   !.status = IF total >= order_object.volume THEN "filled"
                              ELSE IF total > 0 THEN "partial_filled" ELSE @]
    /\ UNCHANGED <<answer, validation>>
    /\ UnitUnchanged

\* Order.cancel
Cancel ==
    /\ order_object # NoOrderObject
    /\ order_object' = IF IsFinal(order_object) THEN order_object
                       ELSE [order_object EXCEPT !.status = "cancelled",
                                                 !.status_message = "cancelled"]
    /\ UNCHANGED <<answer, validation>>
    /\ UnitUnchanged

\* Order.reject
Reject(message) ==
    /\ order_object # NoOrderObject
    /\ order_object' = IF IsFinal(order_object) THEN order_object
                       ELSE [order_object EXCEPT !.status = "rejected",
                                                 !.status_message = message]
    /\ UNCHANGED <<answer, validation>>
    /\ UnitUnchanged

NextOrder ==
    \/ \E v \in OrderVolumes : CreateLimitOrder(v)
    \/ \E v \in FilledVolumes, p \in FilledPrices : UpdateFilled(v, p)
    \/ Cancel
    \/ \E m \in RejectMessages : Reject(m)

SpecOrder == Init /\ [][NextOrder]_vars

(***************************************************************************)
(* The trades while executions.json may be unusable when the recorder      *)
(* reads or writes it                                                      *)
(***************************************************************************)
ExecutionsIO == {"ok", "error"}

NextRecord ==
    \/ \E q \in Quotes, io \in ExecutionsIO, c \in Codes, lo \in MinPrices, r \in BuyRatios :
          BuyStock(EnvIO(q, io), c, lo, NoBound, r)
    \/ \E q \in Quotes, io \in ExecutionsIO, c \in Codes, r \in SellRatios :
          SellStock(EnvIO(q, io), c, NoBound, NoBound, r, NoStrategy)
    \/ \E q \in Quotes, io \in ExecutionsIO, c \in Codes, st \in ExecutionStatuses :
          ExecuteHold(EnvIO(q, io), c, st)
    \/ Tick

SpecRecord == Init /\ [][NextRecord]_vars

(***************************************************************************)
(* Properties                                                              *)
(***************************************************************************)
\* the last step was a call of a handler
Called == last'.seq # last.seq

\* C1: a successful buy of v shares at p lowers the cash persisted in assets.json by
\* exactly v * p, and a successful sell raises it by v * p.
C1_CashFollowsTrade ==
    [][(Called /\ last'.status = "success") =>
          assets_file'.cash = IF last'.op = "buy"
                              THEN assets_file.cash - last'.volume * last'.price
                              ELSE assets_file.cash + last'.volume * last'.price]_vars

\* C2: the persisted cash is never negative, and because a buy that exceeds the available
\* cash fails, what the buys have spent (less what the sells returned) never exceeds
\* the cash the trader held.
C2_SpendingWithinCash == assets_file.cash >= 0 /\ spent <= total_cash

\* C3: of two processes using FileLock on one path at most one is inside the locked
\* section, unless the other's acquisition is lock_timeout seconds old or older.
C3_MutualExclusion ==
    \A p, q \in Procs :
        (p # q /\ InSection(p) /\ InSection(q) /\ acquired[p] <= acquired[q]) =>
            acquired[q] - acquired[p] >= lock_timeout

\* C4: every write of the positions file or the assets file made by buy_stock, sell_stock
\* or update_positions is made while holding that file's FileLock.
C4_WritesUnderLock == \A w \in last.writes : w.locked

\* C5: a reader of a ledger file never gets an empty or a partly written file, also
\* while a save is running.
C5_ReaderSeesComplete == seen = "complete"

\* C6: no more than trade_frequency_limit trades go through in any frequency_window
\* seconds.
C6_FrequencyLimit ==
    \A i \in DOMAIN trade_log :
        Cardinality({j \in DOMAIN trade_log :
                        j <= i /\ trade_log[i] - trade_log[j] <= frequency_window})
            <= trade_frequency_limit

\* C7: buy_stock called outside the trading days and hours raises InvalidTimeError and
\* writes nothing.
C7_BuyOutsideHours ==
    (last.op = "buy" /\ ~last.trading_time) =>
        (last.status = "InvalidTimeError" /\ last.writes = {})

\* C8: a buy that got a quote is rejected with PriceNotMatchError exactly when a max_price
\* is given and the price is above it; a price below min_price is accepted.
C8_BuyBand ==
    (last.op = "buy" /\ last.quote # NoQuote) =>
        (last.status = "PriceNotMatchError"
            <=> (last.max_price # NoBound /\ last.quote > last.max_price))

\* the last call was a sell that came as far as its price check
SellReachedBand ==
    /\ last.op = "sell"
    /\ last.quote # NoQuote
    /\ last.status \notin {"skipped", "InvalidTimeError", "FrequencyLimitError"}

C10_RejectedBuyChangesNothing ==
    [][(Called /\ last'.op = "buy" /\ last'.max_price # NoBound /\ last'.quote # NoQuote
           /\ last'.quote > last'.max_price) =>
          (/\ last'.status = "PriceNotMatchError"
           /\ last'.writes = {}
           /\ positions_file' = positions_file
           /\ assets_file' = assets_file
           /\ cash' = cash
           /\ total_cash' = total_cash)]_vars

\* a buy above its max_price was rejected by an account that holds a position
C10_Witness ==
    /\ last.op = "buy"
    /\ last.max_price # NoBound
    /\ last.quote > last.max_price
    /\ last.status = "PriceNotMatchError"
    /\ \E c \in Codes : positions_file[c] # NoPos

\* C11: after a successful buy or add that the scheduler executed, the value of the
\* bought symbol's position is at most max_position_ratio percent of total assets
C11_PositionCeiling ==
    (last.op = "execute_buy" /\ last.status = "success") =>
        assets_file.positions[last.stock_code].market_value * 100
            <= max_position_ratio * assets_file.total_assets

\* the value of the holding of the symbol the step buys, at the price of the step, and
\* the total assets the sizing of the step reads
HeldValueBefore ==
    LoadPositions(Env([c \in Codes |-> last'.quote]), positions_file)[last'.stock_code].volume
        * last'.quote
TotalAssetsBefore == UpdateAssets(Env([c \in Codes |-> last'.quote]), assets_file).ret.total_assets

\* C12: a buy whose symbol is already held at or above the target value
\* (total assets times the target ratio) has volume 0 and trades nothing
C12_BuyTargetsGap ==
    [][(/\ Called
        /\ last'.op \in {"buy", "execute_buy"}
        /\ last'.quote > 0
        /\ HeldValueBefore * 100 >= TotalAssetsBefore * last'.position_ratio)
       => (last'.volume = 0 /\ positions_file' = positions_file)]_vars

\* C13: every volume a sizing function returns is a multiple of volume_step and is
\* either 0 or at least min_volume, under every configured pair
C13_VolumeStep ==
    /\ sizing.volume % sizing.volume_step = 0
    /\ (sizing.volume = 0 \/ sizing.volume >= sizing.min_volume)

\* C14: a successful buy that adds its volume to a stored position (old_volume, old_cost)
\* stores an average cost c with old_volume*old_cost + volume*price = (old_volume+volume)*c,
\* both sides compared as fractions in lowest terms,
\* and a first buy of a symbol stores the fill price as its cost
C14_WeightedAverage ==
    [][(Called /\ last'.op \in {"buy", "execute_buy"} /\ last'.status = "success") =>
         LET old == positions_file[last'.stock_code]
             new == positions_file'[last'.stock_code]
         IN  /\ (old # NoPos /\ new.volume = old.volume + last'.volume) =>
                    Rat(old.volume * old.price[1] + last'.volume * last'.price * old.price[2],
                        old.price[2])
                    = Rat((old.volume + last'.volume) * new.price[1], new.price[2])
             /\ (old = NoPos /\ new.volume = last'.volume) => new.price = <<last'.price, 1>>
      ]_vars

\* a buy has added shares to a position at a price other than its cost
C14_Witness ==
    /\ last.op \in {"buy", "execute_buy"} /\ last.status = "success"
    /\ positions_file[last.stock_code].volume > last.volume
    /\ positions_file[last.stock_code].price[2] # 1

\* C15: a successful sell of s shares from a stored position of h > s shares leaves that
\* position with h - s shares at the same average cost and every other position unchanged
C15_SellFrame ==
    [][(/\ Called /\ last'.op = "sell" /\ last'.status = "success"
        /\ positions_file[last'.stock_code].volume > last'.volume)
       => positions_file' = [positions_file EXCEPT ![last'.stock_code].volume = @ - last'.volume]
      ]_vars

\* C16: every position stored in positions.json has volume > 0; a sell that brings a
\* symbol's volume to 0 leaves no record of it
C16_NoZeroRow == \A c \in Codes : positions_file[c] = NoPos \/ positions_file[c].volume > 0

\* a sell has taken the whole holding of a symbol and its record is gone
C16_Witness ==
    /\ last.op = "sell" /\ last.status = "success" /\ last.volume > 0
    /\ positions_file[last.stock_code] = NoPos

\* C17: in every asset snapshot a call has written, total_assets = cash + total_market_value
C17_TotalIsCashPlusValue ==
    (\E w \in last.writes : w.file = "assets") =>
        assets_file.total_assets = assets_file.cash + assets_file.total_market_value

\* C18: update_positions leaves the cash of assets.json exactly as it was before the
\* call, whether it succeeds or fails, and a successful call stores the remote positions
C18_ReconcileKeepsCash ==
    [][(Called /\ last'.op = "update_positions") =>
          /\ assets_file'.cash = assets_file.cash
          /\ (last'.status = "True" /\ last'.writes # {}) =>
                 positions_file' = RemoteToPositions(remote.positions)
      ]_vars

\* C19: an update_positions called less than position_ttl seconds after the last
\* successful reconcile asks the service for nothing and changes no ledger field
C19_ReconcileWithinTTL ==
    [][(/\ Called /\ last'.op = "update_positions"
        /\ last_update # 0
        /\ (EpochStart + now) - last_update < position_ttl)
       => /\ ~last'.reconcile_fetch
          /\ last'.writes = {}
          /\ UNCHANGED <<positions_file, assets_file, cash, total_cash, last_update>>
      ]_vars

\* update_positions has been called within the TTL of a reconcile that took effect
C19_Witness ==
    /\ last.op = "update_positions" /\ ~last.reconcile_fetch
    /\ last_update # 0
    /\ (EpochStart + now) - last_update < position_ttl

\* C20: the client never moves an instruction's execution_status backward along
\* pending, partial, completed: no status it puts ranks below the status the
\* instruction had, and a completed instruction is never set to partial or pending
C20_StatusOnlyForward ==
    \A id \in InstructionIds : \A m \in status_moves[id] : StatusRank(m[2]) >= StatusRank(m[1])

\* C21: an execution that ends blocked (zero volume, insufficient funds or holding,
\* order refused) leaves the instruction's execution_status as it was; the client
\* puts pending only for blocked outcomes, so it puts pending only on a pending
\* instruction and never demotes a partial one
C21_BlockedKeepsStatus ==
    \A id \in InstructionIds : \A m \in status_moves[id] : m[2] = "pending" => m[1] = "pending"

\* the value a buy instruction aims at: total_assets * position_ratio / 100
BuyTargetValue(fill, strategy) == (fill.total_assets * strategy.position_ratio) \div 100
\* the shares a sell instruction aims to keep: holdings * (1 - position_ratio / 100)
SellTargetResidual(fill, strategy) ==
    (fill.volume_before * (100 - strategy.position_ratio)) \div 100
Abs(x) == IF x < 0 THEN -x ELSE x

\* C22: when the client marks an instruction completed for a filled order, the holding
\* is within 5% of the target value (buy) or within 100 shares of the target residual
\* (sell); after a fill that leaves the holding short of that, the instruction is partial
C22_CompletedWithinTolerance ==
    \A id \in InstructionIds :
        LET fill == fills[id]
            strategy == strategies[id]
            within ==
                IF strategy.action = "buy"
                THEN 20 * Abs(fill.market_value_after - BuyTargetValue(fill, strategy))
                        <= BuyTargetValue(fill, strategy)
                ELSE Abs(fill.volume_after - SellTargetResidual(fill, strategy)) <= 100
        IN  fill # NoFill /\ strategy.action \in {"buy", "sell"} =>
               /\ fill.execution_status = "completed" => within
               /\ ~within => strategy.execution_status = "partial"

\* C23: executing a hold instruction changes no position and no cash and reports
\* success (the instruction completed) with volume 0, held or not
C23_HoldCompletes ==
    [][Called /\ last'.op = "execute_hold" =>
          /\ last'.status = "success"
          /\ last'.volume = 0
          /\ UNCHANGED <<positions_file, assets_file, cash, total_cash>>]_vars

\* the failures sell_stock raises, and the skip it returns, before it looks at the holding
SellGateStatuses == {"skipped", "InvalidTimeError", "FrequencyLimitError", "TradeError",
                     "PriceNotMatchError", "PriceDeviationError"}

C25_OriginalRatioRejected ==
    sizing.fn = "trim" /\ sizing.original <= 0 => sizing.volume = 0

\* C26: a buy or sell whose execution record could not be written still answers
\* success with its volume, its one save of positions.json stands, and
\* executions.json is as it was
C26_RecordingFailureKeepsTrade ==
    [][Called /\ last'.op \in {"buy", "sell"} /\ emission'.attempts > 0 /\ ~emission'.recorded =>
          /\ last'.status = "success"
          /\ last'.volume > 0
          /\ emission'.saves = 1
          /\ Write("positions", FALSE) \in last'.writes
          /\ last'.op = "buy" => positions_file'[last'.stock_code].volume >= last'.volume
          /\ executions' = executions]_vars

C26_Witness ==
    /\ last.op \in {"buy", "sell"} /\ last.status = "success"
    /\ emission.attempts > 0 /\ ~emission.recorded

\* C27: a recorder that gave up without writing its record made the capped
\* number of attempts
C27_GivesUpAfterCap ==
    emission.attempts > 0 /\ ~emission.recorded => emission.attempts = stop_after_attempt

C29_LoadNeverRaises ==
    loading.fn # "none" =>
       /\ ~loading.raised
       /\ loading.fn = "load_positions" /\ loading.positions_state # "valid"
             /\ Listed(GetPosition(Env(FlatQuote))) = {} =>
                loading.positions = EmptyPositions
       /\ loading.fn = "load_assets" /\ loading.assets_state # "valid"
             /\ GetTotalAssets(Env(FlatQuote)).cash <= 0
             /\ GetTotalAssets(Env(FlatQuote)).total_assets <= 0 =>
                loading.cash = INITIAL_CASH

\* C30: while a process is inside its with-block, its lock file is at the path
\* and it acquired the lock no more than 300 seconds ago, no step of another
\* process removes or replaces the file at the path
C30_LiveLockKept ==
    [][\A h \in Procs :
          /\ InSection(h) /\ pc'[h] = pc[h]
          /\ lock_file # 0 /\ lock[h] = lock_file
          /\ clock - acquired[h] <= lock_timeout
          => lock_file' = lock_file]_vars

\* C31: nothing is taken from an answer whose transport status is 200 and whose
\* embedded code is not 200: no strategy, no position row, no funds
C31_EmbeddedCodeHonoured ==
    answer.fn # "none" /\ answer.response.status = 200 /\ answer.response.code # 200 =>
       /\ answer.strategies = {}
       /\ answer.rows = {}
       /\ answer.total_assets = 0 /\ answer.cash = 0

\* C32: validate_strategy answers True exactly when stock_code, action,
\* position_ratio and is_active are present and not null, is_active is true,
\* 0 < position_ratio <= max_position_ratio and 0 <= price_min <= price_max,
\* a bound that is absent, null or '' counting as 0 and as +infinity
C32_ValidateExactly ==
    validation.called =>
       LET st == validation.strategy
           present(f) == f.kind \notin {"absent", "null"}
           numeric(f) == f.kind = "number"
           given(f) == f.kind \notin {"absent", "null", "empty"}
           lo == IF given(st.price_min) THEN st.price_min.value ELSE 0
           hi == IF given(st.price_max) THEN st.price_max.value ELSE Infinity
       IN  validation.result <=>
              /\ present(st.stock_code) /\ present(st.action)
              /\ present(st.position_ratio) /\ present(st.is_active)
              /\ st.is_active.value = 1
              /\ numeric(st.position_ratio)
              /\ 0 < st.position_ratio.value /\ st.position_ratio.value <= max_position_ratio
              /\ given(st.price_min) => numeric(st.price_min)
              /\ given(st.price_max) => numeric(st.price_max)
              /\ 0 <= lo /\ lo <= hi

C32_Witness ==
    /\ validation.called /\ validation.result
    /\ validation.strategy.price_max.kind = "absent"
    /\ validation.strategy.position_ratio.value = max_position_ratio

C35_SizedWithinHolding ==
    sizing.fn \in {"sell", "trim"} /\ sizing.holdings > 0 =>
       0 <= sizing.volume /\ sizing.volume <= sizing.holdings

\* a holding that is no multiple of the step was sized: all of it asked, less sold
C35_Witness ==
    /\ sizing.fn \in {"sell", "trim"} /\ sizing.ratio = 100
    /\ sizing.holdings = 150 /\ sizing.volume = 100

\* C36: after the broker filled a sell of v shares from a position of T > v shares,
\* original_position_ratio is its previous value multiplied by (1 - v/T)
C36_RatioScaledByRemainder ==
    \A id \in InstructionIds :
       LET f == fills[id] IN
       f.side = "sell" /\ f.volume_before > f.volume =>
          f.ratio_after = Rat(f.ratio_before[1] * (f.volume_before - f.volume),
                              f.ratio_before[2] * f.volume_before)

\* C37: a sell rejected by the price band, the price deviation or the missing
\* position, or one that ends with zero volume, leaves the window of the frequency
\* limiter as it was
C37_RejectedSellKeepsWindow ==
    [][Called /\ last'.op = "sell"
          /\ \/ last'.status \in {"PriceNotMatchError", "PriceDeviationError",
                                  "NoPositionError"}
             \/ last'.status = "failed" /\ emission'.sized /\ emission'.sized_volume <= 0
          => trade_times' = trade_times]_vars

\* C38: after the broker filled a buy order, available funds are lower than before
\* the order was placed by the fill amount plus the commission, and frozen_funds is
\* back at the value it had before the order was placed
C38_BuyFillDebitsFunds ==
    \A id \in InstructionIds :
       LET f == fills[id] IN
       f.side = "buy" =>
          /\ f.available_after = orders[id].placed_available - (f.amount + Commission(f.amount))
          /\ f.frozen_after = orders[id].placed_frozen

\* C39: once the status of an Order is final (filled, cancelled, rejected, expired),
\* no call of update_filled, cancel or reject changes it
C39_FinalStatusKept ==
    [][IsFinal(order_object) => order_object'.status = order_object.status]_vars

\* C40: a handler that picked up an instruction whose execution_status is completed
\* trades nothing: no execution is recorded, no file is saved, and positions, cash
\* and the frequency window stay as they were
C40_CompletedNeverExecuted ==
    [][Called /\ last'.picked_status = "completed" =>
          /\ last'.volume = 0
          /\ executions' = executions
          /\ emission'.saves = 0 /\ emission'.attempts = 0
          /\ positions_file' = positions_file
          /\ assets_file' = assets_file
          /\ cash' = cash /\ total_cash' = total_cash
          /\ trade_times' = trade_times
          /\ spent' = spent /\ trade_log' = trade_log]_vars

\* a completed sell instruction was picked up in trading time for a quoted symbol that is held
C40_Witness ==
    /\ last.op = "sell" /\ last.picked_status = "completed"
    /\ last.trading_time /\ last.quote = 100
    /\ ~HasNoPosition(LoadPositions(Env(FlatQuote), positions_file), last.stock_code)

====
